---- MODULE Spec2Model ----
(***************************************************************************)
(* ContentReaper: the StateManager (lib/state_manager.py), the download    *)
(* worker loop (lib/worker.py) and the request handlers that call them     *)
(* (lib/routes.py, lib/system.py, web_tool.py).                            *)
(*                                                                         *)
(* Python dicts are objects: a job dict that sits in the queue, in the     *)
(* worker's local variable and in a history row is ONE object.  The model  *)
(* keeps a heap `jobs` of job dicts and stores references (indices into    *)
(* the heap) wherever the program stores the dict.  What is written to the *)
(* state file is the JSON value of the dicts, without identity.            *)
(***************************************************************************)
EXTENDS Integers, Sequences, FiniteSets, TLC

\* ---- bounds of the model ------------------------------------------------
MaxJobs == 2             \* job dicts created by add_to_queue_route
MaxQueueId == 3          \* add_to_queue is explored while next_queue_id < MaxQueueId
MaxPasses == 2           \* jobs the worker dequeues
MaxCurrentVersion == 3   \* optional current-download bumps (pause, resume, progress) stop here
MaxQueueVersion == 1     \* reorder of an empty queue (a bump without a change) stops here
MaxOrderLen == 2         \* length of the ordered_ids list of a reorder request
MaxCrashes == 1          \* process crashes explored by SpecRecovery
MaxScythes == 2          \* Scythes stored in scythes.json at one time
MaxScytheId == 3         \* ScytheManager.add is explored while the new id is below this
MaxFinJobs == 2          \* jobs whose files are followed into one download folder
MaxNameLen == 4          \* length of the names handed to sanitize_filename
MaxReloadScythes == 2    \* Scythes in the list one _load_and_schedule_jobs run reads
MaxWeekdays == 2         \* length of the weekdays list of a schedule
MaxEastOffset == 14      \* time zones go up to UTC+14 ...
MaxWestOffset == 12      \* ... and down to UTC-12

VARIABLES
    jobs,                     \* heap of job dicts: jobs[r] = [id, resolved_folder, url]
    queue,                    \* StateManager.queue.queue : sequence of job references
    history,                  \* StateManager.history : sequence of history rows
    current_download,         \* StateManager.current_download
    next_log_id,              \* StateManager.next_log_id
    next_queue_id,            \* StateManager.next_queue_id
    history_state_version,    \* StateManager.history_state_version
    queue_state_version,      \* StateManager.queue_state_version
    current_download_version, \* StateManager.current_download_version
    cancel_event,             \* StateManager.cancel_event (is_set)
    stop_mode,                \* StateManager.stop_mode
    queue_paused_event,       \* StateManager.queue_paused_event (is_set: TRUE = running)
    lock_owner,               \* thread that holds StateManager._lock and will never release it
    mutex_owner,              \* thread that holds queue.mutex and will never release it
    state_file,               \* contents of state.json
    pc,                       \* position of the worker thread in yt_dlp_worker
    job,                      \* worker local `job` (reference)
    status,                   \* worker local `status` / `final_status`
    log_id_for_file,          \* worker local `log_id_for_file`
    process,                  \* the yt-dlp process of the active job: "none", "running", "exited0", "exited1"
    stop_pc,                  \* position of a request thread inside stop_route
    main_pc,                  \* main thread: "startup" (before load_state), "serving", "hung"
    lifetime,                 \* number of process restarts so far
    dequeued_id,              \* history variable: job['id'] at the moment of the dequeue
    stop_during_job,          \* history variable: cancel_event.set() ran while this job was active
    n_dequeued,               \* history variable: jobs returned by queue.get so far
    n_recorded,               \* history variable: passes that reached the end of the finally block
    crash_active,             \* history variable: id of the job that was active at the last crash
    clear_run,                \* history variable: clear_queue calls in a row (0, 1, 2 = two or more)
    clear_base,               \* history variable: queue_state_version before the first of them
    scythes,                  \* contents of scythes.json: sequence of Scythe dicts
    sched_pc,                 \* the scheduler thread: "running" (in run_pending), "dead"
    schedule_jobs,            \* schedule.jobs: ids of the Scythes a trigger is registered for
    route_pc,                 \* a Scythe route between its ScytheManager call and its reload: "none", "reload"
    fs_scratch,               \* temp_dir/job_<id> of the job in work: <<>> or <<files>>
    fs_dest,                  \* download_dir/<folder>: file name -> content
    fin,                      \* the job whose files are followed through prepare, download, finalize
    trigger,                  \* one Scythe schedule handled by _load_and_schedule_jobs
    emitter_pc,               \* the state_emitter task: "sample", "sleep" (after an exception)
    last_versions,            \* state_emitter local `last_versions`
    emitted,                  \* number of g.socketio.emit('state_update', ...) calls of the task
    san,                      \* one name handed to sanitize_filename, and the results
    reload,                   \* one run of _load_and_schedule_jobs over a list of Scythes
    shutdown,                 \* the worker loop and the main thread's shutdown sequence
    manager,                  \* two request threads inside ScytheManager calls
    reloads                   \* threads inside _load_and_schedule_jobs, and the tick loop

vars == <<jobs, queue, history, current_download, next_log_id, next_queue_id,
          history_state_version, queue_state_version, current_download_version,
          cancel_event, stop_mode, queue_paused_event, lock_owner, mutex_owner,
          state_file, pc, job, status,
          log_id_for_file, process, stop_pc, main_pc, lifetime, dequeued_id,
          stop_during_job, n_dequeued, n_recorded, crash_active, clear_run, clear_base,
          scythes, sched_pc, schedule_jobs, route_pc, fs_scratch, fs_dest, fin, trigger,
          emitter_pc, last_versions, emitted, san, reload,
          shutdown, manager, reloads>>

sm_vars == <<jobs, queue, history, current_download, next_log_id, next_queue_id,
             history_state_version, queue_state_version, current_download_version,
             queue_paused_event, lock_owner, mutex_owner, state_file>>

worker_vars == <<pc, job, status, log_id_for_file,
                 dequeued_id, n_dequeued, n_recorded, process>>

ghost_stop == <<stop_during_job>>

proc_vars == <<main_pc, lifetime, crash_active>>

\* the Scythe file and the scheduler thread
scythe_vars == <<scythes, sched_pc, schedule_jobs, route_pc>>

\* a step that is not a clear_queue call ends the run of clear_queue calls
ProcFrame == UNCHANGED proc_vars /\ clear_run' = 0 /\ clear_base' = 0

\* the files of a job and the schedule of a Scythe
fs_vars == <<fs_scratch, fs_dest, fin>>
\* the state_emitter task
emitter_vars == <<emitter_pc, last_versions, emitted>>

\* what the steps on files and schedules leave alone
\* the models of concurrent calls
conc_vars == <<shutdown, manager, reloads>>

rest_vars == <<emitter_vars, san, reload, conc_vars>>

side_vars == <<fs_vars, trigger, rest_vars>>

\* a step of the StateManager, the worker or a queue/history request
CoreFrame == ProcFrame /\ UNCHANGED scythe_vars /\ UNCHANGED side_vars

\* ---- values -------------------------------------------------------------
NoJob == 0          \* Python None where a job reference is expected
NoId == -1          \* a job dict that has no 'id' key yet

TerminalStatuses == {"COMPLETED", "PARTIAL", "FAILED", "CANCELLED", "STOPPED", "ERROR"}

NoUrl == "none"     \* a job dict without a 'url' key
Urls == {"u1", "u2"}

\* a dict freshly built by add_to_queue_route: one per submitted url
NewJobDict == [id |-> NoId, resolved_folder |-> "unset", url |-> "u1"]

_get_default_current_download == [job_data |-> NoJob, status |-> "", log_path |-> "None"]

NoFile == [exists |-> FALSE, queue |-> <<>>, history |-> <<>>, current_job |-> <<>>]

\* no job is between _prepare_job_environment and the end of _finalize_job
NoFin == [pc |-> "none", n |-> 0, target_ext |-> "none", archive |-> FALSE,
          temp_log_path |-> "", status |-> "PENDING", final_filenames |-> {},
          archive_at_start |-> FALSE, dest_at_start |-> <<>>,
          run_status |-> "PENDING", error_summary |-> "None"]

\* no schedule has been read
NoTrigger == <<>>

\* last_versions of state_emitter before its first sample
NoSample == [queue |-> -1, history |-> -1, current |-> -1, scythes |-> -1]

\* no list of Scythes has been handed to _load_and_schedule_jobs
NoReload == [pc |-> "none"]

\* no name has been handed to sanitize_filename
NoName == [pc |-> "none"]

\* ---- small helpers ------------------------------------------------------
RECURSIVE MaxOf(_, _)
MaxOf(s, m) == IF s = <<>> THEN m
               ELSE MaxOf(Tail(s), IF Head(s) > m THEN Head(s) ELSE m)

\* all sequences over S of length at most n
RECURSIVE SeqsUpTo(_, _)
SeqsUpTo(S, n) == IF n = 0 THEN {<<>>}
                  ELSE LET shorter == SeqsUpTo(S, n - 1)
                       IN shorter \cup {Append(s, x) : s \in {t \in shorter : Len(t) = n - 1}, x \in S}

LockFree == lock_owner = "none"
MutexFree == mutex_owner = "none"
Serving == main_pc = "serving"

\* ---- save_state ---------------------------------------------------------
\* JSON value of a history row: the job dict is written by value
RowValue(heap, h) ==
    [log_id |-> h.log_id, status |-> h.status,
     job_data |-> IF h.job_data = NoJob THEN <<>> ELSE <<heap[h.job_data]>>,
     error_summary |-> h.error_summary]

\* state_to_save of save_state
state_to_save(heap, q, hist, cur) ==
    [exists |-> TRUE,
     queue |-> [i \in 1..Len(q) |-> heap[q[i]]],
     history |-> [i \in 1..Len(hist) |-> RowValue(heap, hist[i])],
     current_job |-> IF cur.job_data = NoJob THEN <<>> ELSE <<heap[cur.job_data]>>]

\* save_state: state.json is replaced by the dump of state_to_save.  (The copy
\* state.json.bak is read only when state.json cannot be parsed; os.replace
\* never leaves such a file, so the copy is not part of the state.)
save_state(heap, q, hist, cur) ==
    state_file' = state_to_save(heap, q, hist, cur)

\* queue.put called while the caller already holds queue.mutex: queue.Queue.put
\* begins with `with self.not_full:`, a Condition on the same non-reentrant
\* Lock, so the caller blocks forever, holding StateManager._lock and the mutex,
\* after it has cleared the deque.
PutUnderMutexBlocks(items) == items # <<>>

\* ---- StateManager mutators ----------------------------------------------
\* add_to_queue(job_data) for the dict r of heap `heap`
add_to_queue(heap, r) ==
    /\ LockFree /\ MutexFree
    /\ next_queue_id < MaxQueueId
    /\ jobs' = [heap EXCEPT ![r].id = next_queue_id]
    /\ next_queue_id' = next_queue_id + 1
    /\ queue' = Append(queue, r)
    /\ queue_state_version' = queue_state_version + 1
    /\ save_state(jobs', queue', history, current_download)
    /\ UNCHANGED <<history, current_download, next_log_id, history_state_version,
                   current_download_version, queue_paused_event, lock_owner, mutex_owner>>

\* add_to_queue_route: one new dict per submitted url
add_to_queue_route ==
    /\ Serving
    /\ Len(jobs) < MaxJobs
    /\ add_to_queue(Append(jobs, NewJobDict), Len(jobs) + 1)
    /\ UNCHANGED <<cancel_event, stop_mode, stop_pc>>
    /\ UNCHANGED worker_vars /\ UNCHANGED ghost_stop /\ CoreFrame

\* save_state when writing fails (json.dump or os.replace raises, or the file
\* lock is not acquired): the except branch prints the error and copies
\* state.json.bak, the copy of the file made a moment before, back; nothing is raised
save_state_fails == UNCHANGED state_file

\* add_to_queue(job_data) whose save_state fails
add_to_queue_save_fails(heap, r) ==
    /\ LockFree /\ MutexFree
    /\ next_queue_id < MaxQueueId
    /\ jobs' = [heap EXCEPT ![r].id = next_queue_id]
    /\ next_queue_id' = next_queue_id + 1
    /\ queue' = Append(queue, r)
    /\ queue_state_version' = queue_state_version + 1
    /\ save_state_fails
    /\ UNCHANGED <<history, current_download, next_log_id, history_state_version,
                   current_download_version, queue_paused_event, lock_owner, mutex_owner>>

\* add_to_queue_route while the state file cannot be written
add_to_queue_route_save_fails ==
    /\ Serving
    /\ Len(jobs) < MaxJobs
    /\ add_to_queue_save_fails(Append(jobs, NewJobDict), Len(jobs) + 1)
    /\ UNCHANGED <<cancel_event, stop_mode, stop_pc>>
    /\ UNCHANGED worker_vars /\ UNCHANGED ghost_stop /\ CoreFrame

\* what a StateManager call made by a request thread leaves alone
RequestFrame ==
    /\ UNCHANGED <<cancel_event, stop_mode, stop_pc>>
    /\ UNCHANGED worker_vars /\ UNCHANGED ghost_stop /\ CoreFrame

\* the caller blocks inside `with self.queue.mutex:` after queue.queue.clear()
BlockedInPut(who) ==
    /\ queue' = <<>>
    /\ lock_owner' = who
    /\ mutex_owner' = who
    /\ UNCHANGED <<jobs, history, current_download, next_log_id, next_queue_id,
                   history_state_version, queue_state_version, current_download_version,
                   queue_paused_event, state_file>>

\* continue_job_route(log_id): re-queue the job_data dict of a history row
continue_job_route(log_id) ==
    /\ Serving /\ LockFree
    /\ LET found == {i \in 1..Len(history) : history[i].log_id = log_id}
       IN  IF found = {} \/ history[CHOOSE i \in found : \A k \in found : i <= k].job_data = NoJob
           THEN UNCHANGED sm_vars                         \* 404
           ELSE LET history_item == history[CHOOSE i \in found : \A k \in found : i <= k]
                    job_to_continue == history_item.job_data
                IN  add_to_queue([jobs EXCEPT ![job_to_continue].resolved_folder = "history_folder"],
                                 job_to_continue)
    /\ RequestFrame

\* a variant of clear_queue without the early return on an empty queue
clear_queue_without_empty_check ==
    /\ Serving /\ LockFree /\ MutexFree
    /\ queue' = <<>>
    /\ queue_state_version' = queue_state_version + 1
    /\ save_state(jobs, queue', history, current_download)
    /\ UNCHANGED <<jobs, history, current_download, next_log_id, next_queue_id,
                   history_state_version, current_download_version,
                   queue_paused_event, lock_owner, mutex_owner>>
    /\ clear_run' = (IF clear_run = 0 THEN 1 ELSE 2)
    /\ clear_base' = (IF clear_run = 0 THEN queue_state_version ELSE clear_base)
    /\ UNCHANGED <<cancel_event, stop_mode, stop_pc>>
    /\ UNCHANGED worker_vars /\ UNCHANGED ghost_stop /\ UNCHANGED proc_vars
    /\ UNCHANGED scythe_vars /\ UNCHANGED side_vars

\* clear_queue
clear_queue ==
    /\ Serving /\ LockFree
    /\ IF queue = <<>>
       THEN UNCHANGED sm_vars                             \* early return, no save
       ELSE /\ MutexFree
            /\ queue' = <<>>
            /\ queue_state_version' = queue_state_version + 1
            /\ save_state(jobs, queue', history, current_download)
            /\ UNCHANGED <<jobs, history, current_download, next_log_id, next_queue_id,
                           history_state_version, current_download_version,
                           queue_paused_event, lock_owner, mutex_owner>>
    /\ clear_run' = (IF clear_run = 0 THEN 1 ELSE 2)
    /\ clear_base' = (IF clear_run = 0 THEN queue_state_version ELSE clear_base)
    /\ UNCHANGED <<cancel_event, stop_mode, stop_pc>>
    /\ UNCHANGED worker_vars /\ UNCHANGED ghost_stop /\ UNCHANGED proc_vars
    /\ UNCHANGED scythe_vars /\ UNCHANGED side_vars

\* updated_queue of delete_from_queue
updated_queue(heap, items, job_id) == SelectSeq(items, LAMBDA r : heap[r].id # job_id)

\* delete_from_queue(job_id)
delete_from_queue(job_id) ==
    /\ Serving /\ LockFree
    /\ LET items == queue
           updated == updated_queue(jobs, items, job_id)
       IN  IF Len(updated) < Len(items)
           THEN /\ MutexFree
                /\ IF PutUnderMutexBlocks(updated)
                   THEN BlockedInPut("request")
                   ELSE /\ queue' = updated
                        /\ queue_state_version' = queue_state_version + 1
                        /\ save_state(jobs, queue', history, current_download)
                        /\ UNCHANGED <<jobs, history, current_download, next_log_id,
                                       next_queue_id, history_state_version,
                                       current_download_version, queue_paused_event,
                                       lock_owner, mutex_owner>>
           ELSE /\ save_state(jobs, queue, history, current_download)
                /\ UNCHANGED <<jobs, queue, history, current_download, next_log_id,
                               next_queue_id, history_state_version, queue_state_version,
                               current_download_version, queue_paused_event,
                               lock_owner, mutex_owner>>
    /\ RequestFrame

\* item_map of reorder_queue: a dict comprehension, the last item with an id wins
item_map(heap, items, job_id) ==
    LET at == {i \in 1..Len(items) : heap[items[i]].id = job_id}
    IN  IF at = {} THEN NoJob ELSE items[CHOOSE i \in at : \A k \in at : k <= i]

\* new_queue_items of reorder_queue
new_queue_items(heap, items, ordered_ids) ==
    LET known == SelectSeq(ordered_ids, LAMBDA id : item_map(heap, items, id) # NoJob)
        existing_ids_in_order == {ordered_ids[i] : i \in 1..Len(ordered_ids)}
    IN  [i \in 1..Len(known) |-> item_map(heap, items, known[i])]
        \o SelectSeq(items, LAMBDA r : heap[r].id \notin existing_ids_in_order)

\* reorder_queue(ordered_ids)
reorder_queue(ordered_ids) ==
    /\ Serving /\ LockFree /\ MutexFree
    /\ LET new_items == new_queue_items(jobs, queue, ordered_ids)
       IN  IF PutUnderMutexBlocks(new_items)
           THEN BlockedInPut("request")
           ELSE /\ queue_state_version < MaxQueueVersion
                /\ queue' = new_items
                /\ queue_state_version' = queue_state_version + 1
                /\ save_state(jobs, queue', history, current_download)
                /\ UNCHANGED <<jobs, history, current_download, next_log_id, next_queue_id,
                               history_state_version, current_download_version,
                               queue_paused_event, lock_owner, mutex_owner>>
    /\ RequestFrame

\* pause_queue
pause_queue ==
    /\ Serving /\ LockFree
    /\ current_download_version < MaxCurrentVersion
    /\ queue_paused_event' = FALSE
    /\ current_download_version' = current_download_version + 1
    /\ UNCHANGED <<jobs, queue, history, current_download, next_log_id, next_queue_id,
                   history_state_version, queue_state_version, lock_owner, mutex_owner,
                   state_file>>
    /\ RequestFrame

\* resume_queue
resume_queue ==
    /\ Serving /\ LockFree
    /\ current_download_version < MaxCurrentVersion
    /\ queue_paused_event' = TRUE
    /\ current_download_version' = current_download_version + 1
    /\ UNCHANGED <<jobs, queue, history, current_download, next_log_id, next_queue_id,
                   history_state_version, queue_state_version, lock_owner, mutex_owner,
                   state_file>>
    /\ RequestFrame

\* clear_history
clear_history ==
    /\ Serving /\ LockFree
    /\ IF history = <<>>
       THEN UNCHANGED sm_vars                             \* early return, no save
       ELSE /\ history' = <<>>
            /\ history_state_version' = history_state_version + 1
            /\ save_state(jobs, queue, history', current_download)
            /\ UNCHANGED <<jobs, queue, current_download, next_log_id, next_queue_id,
                           queue_state_version, current_download_version,
                           queue_paused_event, lock_owner, mutex_owner>>
    /\ RequestFrame

\* delete_from_history(log_id)
delete_from_history(log_id) ==
    /\ Serving /\ LockFree
    /\ IF \A i \in 1..Len(history) : history[i].log_id # log_id
       THEN UNCHANGED sm_vars                             \* early return, no save
       ELSE /\ history' = SelectSeq(history, LAMBDA h : h.log_id # log_id)
            /\ history_state_version' = history_state_version + 1
            /\ save_state(jobs, queue, history', current_download)
            /\ UNCHANGED <<jobs, queue, current_download, next_log_id, next_queue_id,
                           queue_state_version, current_download_version,
                           queue_paused_event, lock_owner, mutex_owner>>
    /\ RequestFrame

\* stop_route, first statement: g.state_manager.stop_mode = ...
stop_route_set_mode(mode) ==
    /\ Serving
    /\ stop_pc = "idle"
    /\ stop_mode' = mode
    /\ stop_pc' = "set_event"
    /\ UNCHANGED sm_vars /\ UNCHANGED worker_vars /\ UNCHANGED ghost_stop
    /\ CoreFrame /\ UNCHANGED cancel_event

\* the worker holds a dequeued job whose status has not been decided yet
JobActive == pc \in {"clear_cancel", "set_stop_mode", "update_current", "prepare",
                     "running", "terminate", "wait_term"}

\* stop_route, second statement: g.state_manager.cancel_event.set()
stop_route_set_event ==
    /\ stop_pc = "set_event"
    /\ cancel_event' = TRUE
    /\ stop_pc' = "idle"
    /\ stop_during_job' = (stop_during_job \/ JobActive)
    /\ UNCHANGED sm_vars /\ UNCHANGED worker_vars
    /\ CoreFrame /\ UNCHANGED stop_mode

\* ---- ScytheManager and the Scythe routes --------------------------------
\* A Scythe dict is [id, job_data, enabled, schedule]: job_data is the client's
\* JSON object (it may lack the 'url' key), enabled is schedule.enabled (FALSE
\* without schedule), schedule is "null" when the key 'schedule' holds None and
\* "dict" when it holds a dict or the key is missing.
ScytheUrls == Urls \cup {NoUrl}

\* the 'schedule' values a request can store: add_scythe_route stores
\* data.get("schedule"), None when the client sent none; update stores the payload
ScheduleKinds(enabled) == IF enabled THEN {"dict"} ELSE {"dict", "null"}

\* ScytheManager.get_by_id: the first Scythe with this id, or <<>> for None
get_by_id(list, scythe_id) ==
    LET found == {i \in 1..Len(list) : list[i].id = scythe_id}
    IN  IF found = {} THEN <<>>
        ELSE <<list[CHOOSE i \in found : \A k \in found : i <= k]>>

\* ScytheManager.add: the list that is saved (new_id = max id + 1)
scythe_add(list, scythe_data) ==
    Append(list, [scythe_data EXCEPT
                     !.id = MaxOf([i \in 1..Len(list) |-> list[i].id], -1) + 1])

\* ScytheManager.update: the list that is saved; the first Scythe with the id is replaced
scythe_update(list, scythe_id, scythe_data) ==
    LET found == {i \in 1..Len(list) : list[i].id = scythe_id}
    IN  IF found = {} THEN list
        ELSE [list EXCEPT ![CHOOSE i \in found : \A k \in found : i <= k] =
                              [scythe_data EXCEPT !.id = scythe_id]]

\* ScytheManager.delete: the list that is saved
scythe_delete(list, scythe_id) == SelectSeq(list, LAMBDA x : x.id # scythe_id)

\* what a statement of a Scythe route leaves alone
ScytheStepFrame ==
    /\ UNCHANGED sm_vars /\ UNCHANGED worker_vars /\ UNCHANGED ghost_stop
    /\ UNCHANGED <<cancel_event, stop_mode, stop_pc, sched_pc>>
    /\ ProcFrame /\ UNCHANGED side_vars

\* what a Scythe route that does not touch the StateManager leaves alone
ScytheRouteFrame == ScytheStepFrame /\ UNCHANGED route_pc

\* _load_and_schedule_jobs: schedule.clear(), then one trigger (daily) for every
\* Scythe whose schedule is enabled
scheduled(list) == {list[i].id : i \in {k \in 1..Len(list) : list[k].enabled}}

\* add_scythe_route with a payload {name, job_data, schedule}.  ScytheManager.add
\* returns the new id, an int; `result, message = g.scythe_manager.add(...)`
\* raises TypeError after the Scythe has been saved, so the schedule is not reloaded
add_scythe_route(url, enabled) ==
    /\ Serving
    /\ Len(scythes) < MaxScythes
    /\ MaxOf([i \in 1..Len(scythes) |-> scythes[i].id], -1) + 1 < MaxScytheId
    /\ \E schedule \in ScheduleKinds(enabled) :
          scythes' = scythe_add(scythes, [id |-> NoId, job_data |-> [url |-> url],
                                          enabled |-> enabled, schedule |-> schedule])
    /\ UNCHANGED schedule_jobs
    /\ ScytheRouteFrame

\* update_scythe_route: update, and a reload of the schedule when a Scythe was found
update_scythe_route(scythe_id, url, enabled) ==
    /\ Serving
    /\ \E schedule \in ScheduleKinds(enabled) :
          scythes' = scythe_update(scythes, scythe_id,
                                   [id |-> NoId, job_data |-> [url |-> url],
                                    enabled |-> enabled, schedule |-> schedule])
    /\ schedule_jobs' = IF get_by_id(scythes, scythe_id) # <<>>
                        THEN scheduled(scythes') ELSE schedule_jobs
    /\ ScytheRouteFrame

\* update_scythe_route up to the return of g.scythe_manager.update(scythe_id, data)
update_scythe_route_update(scythe_id, url, enabled) ==
    /\ Serving
    /\ route_pc = "none"
    /\ \E schedule \in ScheduleKinds(enabled) :
          scythes' = scythe_update(scythes, scythe_id,
                                   [id |-> NoId, job_data |-> [url |-> url],
                                    enabled |-> enabled, schedule |-> schedule])
    /\ route_pc' = IF get_by_id(scythes, scythe_id) # <<>> THEN "reload" ELSE "none"
    /\ UNCHANGED schedule_jobs
    /\ ScytheStepFrame

\* delete_scythe_route up to the return of g.scythe_manager.delete(scythe_id)
delete_scythe_route_delete(scythe_id) ==
    /\ Serving
    /\ route_pc = "none"
    /\ scythes' = scythe_delete(scythes, scythe_id)
    /\ route_pc' = IF get_by_id(scythes, scythe_id) # <<>> THEN "reload" ELSE "none"
    /\ UNCHANGED schedule_jobs
    /\ ScytheStepFrame

\* the second statement of both routes: g.scheduler._load_and_schedule_jobs()
scythe_route_reload ==
    /\ Serving
    /\ route_pc = "reload"
    /\ schedule_jobs' = scheduled(scythes)
    /\ route_pc' = "none"
    /\ UNCHANGED scythes
    /\ ScytheStepFrame

\* delete_scythe_route: delete, and a reload of the schedule when a Scythe was found
delete_scythe_route(scythe_id) ==
    /\ Serving
    /\ scythes' = scythe_delete(scythes, scythe_id)
    /\ schedule_jobs' = IF get_by_id(scythes, scythe_id) # <<>>
                        THEN scheduled(scythes') ELSE schedule_jobs
    /\ ScytheRouteFrame

\* ScythesChangeHandler.on_modified: the file watcher reloads the schedule
on_modified ==
    /\ Serving
    /\ schedule_jobs' = scheduled(scythes)
    /\ UNCHANGED scythes
    /\ ScytheRouteFrame

\* schedule.run_pending() runs the trigger of a Scythe: Scheduler._reap_scythe.
\* A Scythe that is gone or disabled is skipped.  scythe.get("schedule", {}) is
\* None when the key holds None: .get("enabled") on it raises AttributeError,
\* which nothing catches up to the thread's run_pending.  Otherwise the method calls
\* self.state_manager.add_notification_to_history, which StateManager does not
\* define: AttributeError leaves _reap_scythe, schedule.run_pending and
\* Scheduler.run_pending, and the scheduler thread ends before add_to_queue.
_reap_scythe(scythe_id) ==
    /\ Serving
    /\ sched_pc = "running"
    /\ scythe_id \in schedule_jobs
    /\ LET scythe == get_by_id(scythes, scythe_id)
       IN  IF scythe = <<>> THEN UNCHANGED sched_pc
           ELSE IF scythe[1].schedule = "null" THEN sched_pc' = "dead"
           ELSE IF ~scythe[1].enabled THEN UNCHANGED sched_pc
           ELSE sched_pc' = "dead"
    /\ UNCHANGED <<scythes, schedule_jobs, route_pc>>
    /\ UNCHANGED sm_vars /\ UNCHANGED worker_vars /\ UNCHANGED ghost_stop
    /\ UNCHANGED <<cancel_event, stop_mode, stop_pc>>
    /\ ProcFrame /\ UNCHANGED side_vars

\* reap_scythe_route: the job_data read from the file is a new dict; it gets
\* resolved_folder and goes to add_to_queue as it is
reap_scythe_route(scythe_id) ==
    /\ Serving
    /\ Len(jobs) < MaxJobs
    /\ LET scythe == get_by_id(scythes, scythe_id)
       IN  IF scythe = <<>>
           THEN UNCHANGED sm_vars                         \* 404
           ELSE LET job_to_reap == [id |-> NoId, resolved_folder |-> "scythe_folder",
                                    url |-> scythe[1].job_data.url]
                IN  add_to_queue(Append(jobs, job_to_reap), Len(jobs) + 1)
    /\ UNCHANGED scythe_vars /\ UNCHANGED side_vars
    /\ UNCHANGED <<cancel_event, stop_mode, stop_pc>>
    /\ UNCHANGED worker_vars /\ UNCHANGED ghost_stop /\ ProcFrame

\* ---- the worker thread: yt_dlp_worker ----------------------------------
\* what a worker step that touches neither the StateManager nor the events leaves alone
WorkerLocalFrame ==
    /\ UNCHANGED sm_vars /\ CoreFrame
    /\ UNCHANGED <<cancel_event, stop_mode, stop_pc, stop_during_job>>

\* what a worker step that calls a StateManager method leaves alone
WorkerCallFrame ==
    /\ CoreFrame
    /\ UNCHANGED <<cancel_event, stop_mode, stop_pc, stop_during_job>>

\* state_manager.queue_paused_event.wait()
worker_wait_paused ==
    /\ Serving /\ pc = "idle"
    /\ queue_paused_event
    /\ pc' = "get"
    /\ UNCHANGED <<job, status, log_id_for_file,
                   dequeued_id, n_dequeued, n_recorded, process>>
    /\ WorkerLocalFrame

\* a variant of the dequeue that takes the newest item of the queue
worker_get_job_newest ==
    /\ Serving /\ pc = "get"
    /\ MutexFree
    /\ queue # <<>>
    /\ n_dequeued < MaxPasses
    /\ job' = queue[Len(queue)]
    /\ queue' = SubSeq(queue, 1, Len(queue) - 1)
    /\ dequeued_id' = jobs[queue[Len(queue)]].id
    /\ n_dequeued' = n_dequeued + 1
    /\ stop_during_job' = FALSE
    /\ pc' = "clear_cancel"
    /\ UNCHANGED <<jobs, history, current_download, next_log_id, next_queue_id,
                   history_state_version, queue_state_version, current_download_version,
                   queue_paused_event, lock_owner, mutex_owner, state_file>>
    /\ UNCHANGED <<status, log_id_for_file, n_recorded, process>>
    /\ CoreFrame /\ UNCHANGED <<cancel_event, stop_mode, stop_pc>>

\* job = state_manager.queue.get(timeout=1), a job is there
worker_get_job ==
    /\ Serving /\ pc = "get"
    /\ MutexFree
    /\ queue # <<>>
    /\ n_dequeued < MaxPasses
    /\ job' = Head(queue)
    /\ queue' = Tail(queue)
    /\ dequeued_id' = jobs[Head(queue)].id
    /\ n_dequeued' = n_dequeued + 1
    /\ stop_during_job' = FALSE
    /\ pc' = "clear_cancel"
    /\ UNCHANGED <<jobs, history, current_download, next_log_id, next_queue_id,
                   history_state_version, queue_state_version, current_download_version,
                   queue_paused_event, lock_owner, mutex_owner, state_file>>
    /\ UNCHANGED <<status, log_id_for_file, n_recorded, process>>
    /\ CoreFrame /\ UNCHANGED <<cancel_event, stop_mode, stop_pc>>

\* queue.get(timeout=1) raises queue.Empty: continue
worker_get_empty ==
    /\ Serving /\ pc = "get"
    /\ MutexFree
    /\ queue = <<>>
    /\ pc' = "idle"
    /\ UNCHANGED <<job, status, log_id_for_file,
                   dequeued_id, n_dequeued, n_recorded, process>>
    /\ WorkerLocalFrame

\* a variant of the worker that does not clear cancel_event for a new job
worker_keeps_cancel_event ==
    /\ Serving /\ pc = "clear_cancel"
    /\ pc' = "set_stop_mode"
    /\ UNCHANGED <<job, status, log_id_for_file,
                   dequeued_id, n_dequeued, n_recorded, process>>
    /\ UNCHANGED sm_vars /\ CoreFrame
    /\ UNCHANGED <<cancel_event, stop_mode, stop_pc, stop_during_job>>

\* state_manager.cancel_event.clear()
worker_clear_cancel ==
    /\ Serving /\ pc = "clear_cancel"
    /\ cancel_event' = FALSE
    /\ pc' = "set_stop_mode"
    /\ UNCHANGED <<job, status, log_id_for_file,
                   dequeued_id, n_dequeued, n_recorded, process>>
    /\ UNCHANGED sm_vars /\ CoreFrame
    /\ UNCHANGED <<stop_mode, stop_pc, stop_during_job>>

\* state_manager.stop_mode = "CANCEL"
worker_set_stop_mode ==
    /\ Serving /\ pc = "set_stop_mode"
    /\ stop_mode' = "CANCEL"
    /\ pc' = "update_current"
    /\ UNCHANGED <<job, status, log_id_for_file,
                   dequeued_id, n_dequeued, n_recorded, process>>
    /\ UNCHANGED sm_vars /\ CoreFrame
    /\ UNCHANGED <<cancel_event, stop_pc, stop_during_job>>

\* update_current_download(data): merge data into current_download, bump the version
update_current_download(data) ==
    /\ LockFree
    /\ current_download' = [f \in DOMAIN current_download |->
                               IF f \in DOMAIN data THEN data[f] ELSE current_download[f]]
    /\ current_download_version' = current_download_version + 1
    /\ UNCHANGED <<jobs, queue, history, next_log_id, next_queue_id,
                   history_state_version, queue_state_version, queue_paused_event,
                   lock_owner, mutex_owner, state_file>>

\* a variant of reset_current_download that also starts the version again at 0
reset_current_download_resets_version ==
    /\ LockFree
    /\ current_download' = _get_default_current_download
    /\ current_download_version' = 0
    /\ UNCHANGED <<jobs, queue, history, next_log_id, next_queue_id,
                   history_state_version, queue_state_version, queue_paused_event,
                   lock_owner, mutex_owner, state_file>>

\* reset_current_download
reset_current_download ==
    /\ LockFree
    /\ current_download' = _get_default_current_download
    /\ current_download_version' = current_download_version + 1
    /\ UNCHANGED <<jobs, queue, history, next_log_id, next_queue_id,
                   history_state_version, queue_state_version, queue_paused_event,
                   lock_owner, mutex_owner, state_file>>

\* update_current_download({"url": job["url"], "status": "Preparing...", "job_data": job});
\* status = "PENDING".  The argument dict is built before the try statement:
\* job["url"] of a dict without that key raises KeyError, which leaves
\* yt_dlp_worker and ends the worker thread.
worker_update_current ==
    /\ Serving /\ pc = "update_current"
    /\ IF jobs[job].url = NoUrl
       THEN /\ pc' = "dead"
            /\ UNCHANGED sm_vars /\ UNCHANGED status
       ELSE /\ update_current_download([job_data |-> job, status |-> "Preparing..."])
            /\ status' = "PENDING"
            /\ pc' = "prepare"
    /\ UNCHANGED <<job, log_id_for_file,
                   dequeued_id, n_dequeued, n_recorded, process>>
    /\ WorkerCallFrame

\* a variant of the status decision in which the return code is looked at first
final_status_by_returncode(cancelled, mode, rc) ==
    IF rc = 0 THEN "COMPLETED"
    ELSE IF cancelled THEN (IF mode = "SAVE" THEN "STOPPED" ELSE "CANCELLED")
    ELSE "FAILED"

\* "Determine final status" of _run_download_process
final_status_of(cancelled, mode, rc) ==
    IF cancelled THEN (IF mode = "SAVE" THEN "STOPPED" ELSE "CANCELLED")
    ELSE IF rc = 0 THEN "COMPLETED"
    ELSE "FAILED"

\* a variant that writes a summary only for runs that failed
error_summary_of_failed_runs(final_status) ==
    IF final_status \in {"FAILED", "PARTIAL"}
    THEN "No specific errors found in log" ELSE "None"

\* error_summary of _finalize_job when its body runs to the end: the text of
\* _generate_error_summary (never empty: the last ERROR:/WARNING: lines of the
\* log, or one of three fixed sentences) for FAILED, ERROR, ABANDONED and
\* PARTIAL, None for the other statuses
error_summary_of(final_status) ==
    IF final_status \in {"FAILED", "ERROR", "ABANDONED", "PARTIAL"}
    THEN "No specific errors found in log" ELSE "None"

\* a variant of _finalize_job that never reclassifies the status
_finalize_job_keeps_status(final_status, moved) == final_status

\* the status _finalize_job returns: FAILED with moved files becomes PARTIAL
_finalize_job(final_status, moved) ==
    IF final_status = "FAILED" /\ moved THEN "PARTIAL" ELSE final_status

\* the try block up to the start of the process: _prepare_job_environment,
\* update_current_download({"log_path": ...}), build_yt_dlp_command, Popen
worker_prepare ==
    /\ Serving /\ pc = "prepare"
    /\ \/ /\ status' = _finalize_job("ERROR", FALSE)   \* _prepare_job_environment raises
          /\ pc' = "reset_current"
          /\ UNCHANGED process
          /\ UNCHANGED sm_vars
       \/ /\ update_current_download([log_path |-> "job_active.log"])
          /\ \/ /\ status' = _finalize_job("ERROR", FALSE)   \* subprocess.Popen raises
                /\ pc' = "reset_current"
                /\ UNCHANGED process
             \/ /\ status' = status            \* process started
                /\ pc' = "running"
                /\ process' = "running"
    /\ UNCHANGED <<job, log_id_for_file,
                   dequeued_id, n_dequeued, n_recorded>>
    /\ WorkerCallFrame

\* a line of output in the polling loop: _process_yt_dlp_output
worker_progress ==
    /\ Serving /\ pc = "running"
    /\ process = "running"
    /\ ~cancel_event
    /\ current_download_version < MaxCurrentVersion
    /\ update_current_download([status |-> "Downloading"])
    /\ UNCHANGED worker_vars
    /\ WorkerCallFrame

\* the yt-dlp process exits by itself with return code rc (0, or 1 for any
\* other code); it may also never do so
process_exits(rc) ==
    /\ Serving
    /\ process = "running"
    /\ process' = (IF rc = 0 THEN "exited0" ELSE "exited1")
    /\ UNCHANGED <<pc, job, status, log_id_for_file, dequeued_id, n_dequeued, n_recorded>>
    /\ WorkerLocalFrame

\* the end of _run_download_process and the _finalize_job call of the finally
\* block: the status is determined from cancel_event, stop_mode and the return
\* code, and _finalize_job moves the files of the scratch directory (moved: at
\* least one file was moved).  The file moves touch nothing another thread
\* reads, so they are one step with the read of cancel_event and stop_mode.
run_decides(rc) ==
    /\ \E moved \in BOOLEAN :
          status' = _finalize_job(final_status_of(cancel_event, stop_mode, rc), moved)
    /\ pc' = "reset_current"
    /\ process' = "none"
    /\ UNCHANGED <<job, log_id_for_file, dequeued_id, n_dequeued, n_recorded>>
    /\ WorkerLocalFrame

\* `while process.poll() is None` ends because the process has exited; the
\* "Handle cancellation" block is skipped
worker_run_ends ==
    /\ Serving /\ pc = "running"
    /\ process \in {"exited0", "exited1"}
    /\ run_decides(IF process = "exited0" THEN 0 ELSE 1)

\* `if state_manager.cancel_event.is_set(): break` in the polling loop, which
\* waits at most 0.1 s for a line of output; the lines already read are copied
\* to the log
worker_sees_cancel ==
    /\ Serving /\ pc = "running"
    /\ process = "running"
    /\ cancel_event
    /\ pc' = "terminate"
    /\ UNCHANGED <<job, status, log_id_for_file, dequeued_id, n_dequeued, n_recorded,
                   process>>
    /\ WorkerLocalFrame

\* "Handle cancellation": process.terminate() if the process is still running
worker_terminate ==
    /\ Serving /\ pc = "terminate"
    /\ IF process = "running"
       THEN /\ pc' = "wait_term"
            /\ UNCHANGED <<job, status, log_id_for_file, dequeued_id, n_dequeued,
                           n_recorded, process>>
            /\ WorkerLocalFrame
       ELSE run_decides(IF process = "exited0" THEN 0 ELSE 1)

\* process.wait(timeout=10) returns: the process has exited
worker_wait_returns ==
    /\ Serving /\ pc = "wait_term"
    /\ process \in {"exited0", "exited1"}
    /\ run_decides(IF process = "exited0" THEN 0 ELSE 1)

\* a variant that waits for the process without a timeout and never kills it
worker_waits_without_timeout ==
    /\ Serving /\ pc = "wait_term"
    /\ process \in {"exited0", "exited1"}
    /\ run_decides(IF process = "exited0" THEN 0 ELSE 1)

\* process.wait(timeout=10) raises TimeoutExpired: process.kill(); process.wait()
worker_kill ==
    /\ Serving /\ pc = "wait_term"
    /\ process = "running"
    /\ run_decides(1)

\* a variant of the finally block that leaves the current download as it is
worker_skips_reset_current ==
    /\ Serving /\ pc = "reset_current"
    /\ pc' = "add_history"
    /\ UNCHANGED sm_vars
    /\ UNCHANGED <<job, status, log_id_for_file,
                   dequeued_id, n_dequeued, n_recorded, process>>
    /\ WorkerCallFrame

\* state_manager.reset_current_download()
worker_reset_current ==
    /\ Serving /\ pc = "reset_current"
    /\ reset_current_download
    /\ pc' = "add_history"
    /\ UNCHANGED <<job, status, log_id_for_file,
                   dequeued_id, n_dequeued, n_recorded, process>>
    /\ WorkerCallFrame

\* the row that add_to_history appends for the dict {} : only log_id is set
placeholder_row(log_id) ==
    [log_id |-> log_id, status |-> "", job_data |-> NoJob, error_summary |-> "None"]

\* a variant of add_to_history that numbers a row by its place in the list
add_to_history_numbers_by_length(hist, history_item) ==
    [history |-> Append(hist, [history_item EXCEPT !.log_id = Len(hist)]),
     new_id |-> Len(hist)]

\* add_to_history(history_item, save=False) on the in-memory state
add_to_history(hist, history_item) ==
    [history |-> Append(hist, [history_item EXCEPT !.log_id = next_log_id]),
     new_id |-> next_log_id]

\* log_id_for_file = state_manager.add_to_history({}, save=False)
worker_add_history ==
    /\ Serving /\ pc = "add_history"
    /\ LockFree
    /\ LET r == add_to_history(history, placeholder_row(NoId))
       IN  /\ history' = r.history
           /\ log_id_for_file' = r.new_id
    /\ next_log_id' = next_log_id + 1
    /\ history_state_version' = history_state_version + 1
    /\ pc' = "update_history"
    /\ UNCHANGED <<jobs, queue, current_download, next_queue_id, queue_state_version,
                   current_download_version, queue_paused_event, lock_owner, mutex_owner,
                   state_file>>
    /\ UNCHANGED <<job, status, dequeued_id,
                   n_dequeued, n_recorded, process>>
    /\ WorkerCallFrame

\* a variant of update_history_item that finds no row: the rows stay as they are
update_history_item_finds_nothing(hist, log_id, data_to_update) == hist

\* update_history_item(log_id, data_to_update) on the in-memory rows: the first
\* row with that log_id is updated
update_history_item(hist, log_id, data_to_update) ==
    LET found == {i \in 1..Len(hist) : hist[i].log_id = log_id}
    IN  IF found = {} THEN hist
        ELSE [hist EXCEPT ![CHOOSE i \in found : \A k \in found : i <= k] = data_to_update]

\* history_item of the finally block; update_history_item; queue.task_done().
\* error_summary is the one _finalize_job returned with the status (when
\* _prepare_job_environment raised it is the sentence of the except branch of
\* _finalize_job instead, which only ERROR rows can hold: a text in both cases)
worker_update_history ==
    /\ Serving /\ pc = "update_history"
    /\ LockFree
    /\ LET history_item == [log_id |-> log_id_for_file, status |-> status,
                            job_data |-> job,
                            error_summary |-> error_summary_of(status)]
       IN  history' = update_history_item(history, log_id_for_file, history_item)
    /\ history_state_version' =
          IF \E i \in 1..Len(history) : history[i].log_id = log_id_for_file
          THEN history_state_version + 1 ELSE history_state_version
    /\ save_state(jobs, queue, history', current_download)
    /\ pc' = "idle"
    /\ n_recorded' = n_recorded + 1
    \* the locals are dead until the next pass assigns them again
    /\ job' = NoJob /\ status' = "PENDING"
    /\ log_id_for_file' = NoId /\ dequeued_id' = NoId /\ stop_during_job' = FALSE
    /\ UNCHANGED <<jobs, queue, current_download, next_log_id, next_queue_id,
                   queue_state_version, current_download_version, queue_paused_event,
                   lock_owner, mutex_owner>>
    /\ UNCHANGED <<n_dequeued, process>>
    /\ CoreFrame /\ UNCHANGED <<cancel_event, stop_mode, stop_pc>>

\* ---- the files of a job: _prepare_job_environment, yt-dlp, _finalize_job ----
\* File names yt-dlp can leave in the scratch directory, and the archive file.
\* fs_dest[n] = 0: no file n in the folder; k > 0: the file written by the k-th job.
Downloadable == {"track.mp3", "tr:ck.mp3", "tr-ck.mp3", "cover.jpg"}
TempArchive == "archive.temp.txt"
MainArchive == "archive.txt"

\* sanitize_filename on these names: a run of illegal characters becomes "-"
sanitize_filename(name) == IF name = "tr:ck.mp3" THEN "tr-ck.mp3" ELSE name

DestNames == {sanitize_filename(f) : f \in Downloadable} \cup {MainArchive}

\* f.endswith('.' + ext)
EndsWithExt(f, ext) ==
    \/ ext = "mp3" /\ f \in {"track.mp3", "tr:ck.mp3", "tr-ck.mp3"}
    \/ ext = "jpg" /\ f = "cover.jpg"
    \/ ext = "txt" /\ f \in {TempArchive, MainArchive}

\* target_ext of the job mode: music/video/clip give an extension, custom gives None
TargetExts == {"mp3", "mp4", "none"}

\* _prepare_job_environment: makedirs of the scratch directory, copy of the
\* folder's archive.txt when the job uses an archive; a failing makedirs raises,
\* the worker's except branch sets ERROR and temp_log_path stays ""
fin_prepare(target_ext, archive, made) ==
    /\ Serving
    /\ fin.pc \in {"none", "finalized"}
    /\ fin.n < MaxFinJobs
    /\ fs_scratch = <<>>
    /\ IF made
       THEN /\ fs_scratch' = IF archive /\ fs_dest[MainArchive] # 0
                             THEN <<{TempArchive}>> ELSE <<{}>>
            /\ fin' = [NoFin EXCEPT !.pc = "prepared", !.n = fin.n + 1,
                                    !.target_ext = target_ext, !.archive = archive,
                                    !.temp_log_path = "job_active.log"]
       ELSE /\ fs_scratch' = <<>>
            /\ fin' = [NoFin EXCEPT !.pc = "downloaded", !.n = fin.n + 1,
                                    !.target_ext = target_ext, !.archive = archive,
                                    !.status = "ERROR", !.run_status = "ERROR"]
    /\ UNCHANGED <<fs_dest, trigger>> /\ UNCHANGED rest_vars
    /\ UNCHANGED sm_vars /\ UNCHANGED worker_vars /\ UNCHANGED ghost_stop
    /\ UNCHANGED <<cancel_event, stop_mode, stop_pc>>
    /\ ProcFrame /\ UNCHANGED scythe_vars

\* build_yt_dlp_command and _run_download_process: yt-dlp leaves files in the
\* scratch directory and, with --download-archive, may write archive.temp.txt;
\* the status is the one _run_download_process or the except branch decides
fin_download(files, writes_archive, run_status) ==
    /\ Serving
    /\ fin.pc = "prepared"
    /\ fs_scratch' = <<fs_scratch[1] \cup files
                        \cup (IF fin.archive /\ writes_archive THEN {TempArchive} ELSE {})>>
    /\ fin' = [fin EXCEPT !.pc = "downloaded", !.status = run_status,
                           !.run_status = run_status]
    /\ UNCHANGED <<fs_dest, trigger>> /\ UNCHANGED rest_vars
    /\ UNCHANGED sm_vars /\ UNCHANGED worker_vars /\ UNCHANGED ghost_stop
    /\ UNCHANGED <<cancel_event, stop_mode, stop_pc>>
    /\ ProcFrame /\ UNCHANGED scythe_vars

\* files_to_move of _finalize_job
files_to_move(files_in_temp, target_ext) ==
    IF target_ext # "none"
    THEN {f \in files_in_temp : EndsWithExt(f, target_ext)}
    ELSE {f \in files_in_temp : f # TempArchive}         \* not f.endswith('.temp.txt')

\* a variant that moves the archive only for a job that completed
archive_is_moved_on_success(final_status, files_in_temp) ==
    final_status = "COMPLETED" /\ TempArchive \in files_in_temp

\* "Always move the archive file": os.path.exists(temp_archive_path), whatever the status
archive_is_moved(final_status, files_in_temp) == TempArchive \in files_in_temp

\* the folder after shutil.move of each file to final_dest_dir/sanitize_filename(f):
\* shutil.move onto an existing file replaces it
move_files(dest, moved, k) ==
    [n \in DestNames |-> IF \E f \in moved : sanitize_filename(f) = n THEN k ELSE dest[n]]

\* _finalize_job on the files.  The body runs inside `with open(temp_log_path, 'a')`:
\* with temp_log_path = "" the open raises and nothing is moved.  The scratch
\* directory is removed at the end.
fin_finalize ==
    /\ Serving
    /\ fin.pc = "downloaded"
    /\ LET body == fin.temp_log_path # ""
           files_in_temp == IF fs_scratch = <<>> THEN {} ELSE fs_scratch[1]
           moved == IF body /\ fs_scratch # <<>>
                    THEN files_to_move(files_in_temp, fin.target_ext) ELSE {}
           after_files == move_files(fs_dest, moved, fin.n)
           with_archive == body /\ archive_is_moved(fin.status, files_in_temp)
       IN  /\ fs_dest' = IF with_archive
                         THEN [after_files EXCEPT ![MainArchive] = fin.n]
                         ELSE after_files
           /\ fin' = [fin EXCEPT !.pc = "finalized",
                                 !.final_filenames = {sanitize_filename(f) : f \in moved},
                                 !.status = IF body THEN _finalize_job(fin.status, moved # {})
                                            ELSE fin.status,
                                 !.error_summary =
                                     IF body
                                     THEN error_summary_of(_finalize_job(fin.status, moved # {}))
                                     ELSE "A critical error occurred during job finalization",
                                 !.archive_at_start = TempArchive \in files_in_temp,
                                 !.dest_at_start = fs_dest]
    /\ fs_scratch' = <<>>
    /\ UNCHANGED trigger /\ UNCHANGED rest_vars
    /\ UNCHANGED sm_vars /\ UNCHANGED worker_vars /\ UNCHANGED ghost_stop
    /\ UNCHANGED <<cancel_event, stop_mode, stop_pc>>
    /\ ProcFrame /\ UNCHANGED scythe_vars

\* ---- Scheduler._load_and_schedule_jobs: the time of a daily trigger ------
\* A time string "HH:MM" is the sequence of its four digits.
Digit == 0..9
Hours == 0..23
Minutes == {0, 1, 29, 30, 59}
Offsets == (0 - MaxWestOffset)..MaxEastOffset      \* utc offsets in whole hours
MinutesPerDay == 1440
Today == 2                                         \* day number of datetime.now

\* strftime("%H:%M")
strftime(hour, minute) == <<hour \div 10, hour % 10, minute \div 10, minute % 10>>

\* hour, minute = map(int, at_time_user.split(':'))
parse_hour(t) == 10 * t[1] + t[2]
parse_minute(t) == 10 * t[3] + t[4]

\* now_user_tz.replace(hour=hour, minute=minute, second=0, microsecond=0): the
\* instant, in minutes of UTC, that shows hour:minute today on a clock at user_offset
replace_time(hour, minute, user_offset) ==
    Today * MinutesPerDay + hour * 60 + minute - user_offset * 60

\* a variant of astimezone that applies the offset with the wrong sign
astimezone_west_of_utc(instant, server_offset) == instant - server_offset * 60

\* user_time.astimezone(None): the same instant on a clock at server_offset,
\* in minutes since day 0 of that clock
astimezone(instant, server_offset) == instant + server_offset * 60

\* at_time_server of _load_and_schedule_jobs
at_time_server(at_time_user, user_offset, server_offset) ==
    LET server_time == astimezone(replace_time(parse_hour(at_time_user),
                                               parse_minute(at_time_user), user_offset),
                                  server_offset)
    IN  strftime((server_time \div 60) % 24, server_time % 60)

\* the schedules a client can store: every HH:MM, both clocks at any whole hour
TriggerInputs ==
    {[at_time_user |-> strftime(h, m), user_offset |-> u, server_offset |-> v,
      at_time_server |-> <<>>] : h \in Hours, m \in Minutes, u \in Offsets, v \in Offsets}

\* _load_and_schedule_jobs for one enabled daily Scythe:
\* schedule.every().day.at(at_time_server)
load_and_schedule_jobs ==
    /\ Serving
    /\ trigger # NoTrigger
    /\ trigger.at_time_server = <<>>
    /\ trigger' = [trigger EXCEPT !.at_time_server =
                      at_time_server(trigger.at_time_user, trigger.user_offset,
                                     trigger.server_offset)]
    /\ UNCHANGED fs_vars /\ UNCHANGED rest_vars
    /\ UNCHANGED sm_vars /\ UNCHANGED worker_vars /\ UNCHANGED ghost_stop
    /\ UNCHANGED <<cancel_event, stop_mode, stop_pc>>
    /\ ProcFrame /\ UNCHANGED scythe_vars

\* ---- Scheduler._load_and_schedule_jobs: the triggers that are registered ----
\* A schedule is [present, enabled, interval, weekdays]; present is FALSE when the
\* Scythe has no schedule (None, or no key).  Its time is one that parses; the
\* conversion of the time is followed by load_and_schedule_jobs above.
\* A registered trigger is [unit, scythe_id]: schedule.every().<unit>.do(
\* self._reap_scythe, scythe_id=...).
DayNames == <<"monday", "tuesday", "wednesday", "thursday", "friday", "saturday", "sunday">>
WeekdayIndexes == {0, 6, 7}                  \* 7 names no day: `job` stays None
Intervals == {"daily", "weekly", "none"}
NoSchedule == [present |-> FALSE, enabled |-> FALSE, interval |-> "none", weekdays |-> <<>>]
Schedules ==
    {NoSchedule} \cup [present : {TRUE}, enabled : BOOLEAN, interval : Intervals,
                       weekdays : SeqsUpTo(WeekdayIndexes, MaxWeekdays)]

\* the loop `for day_index in weekdays`
RECURSIVE weekly_jobs(_, _)
weekly_jobs(weekdays, scythe_id) ==
    IF weekdays = <<>> THEN <<>>
    ELSE (IF Head(weekdays) \in 0..6
          THEN <<[unit |-> DayNames[Head(weekdays) + 1], scythe_id |-> scythe_id]>>
          ELSE <<>>)
         \o weekly_jobs(Tail(weekdays), scythe_id)

\* the body of `for scythe in scythes`: the triggers registered for one Scythe
jobs_of_scythe(scythe) ==
    LET schedule_info == scythe.schedule
    IN  IF ~(schedule_info.present /\ schedule_info.enabled) THEN <<>>
        ELSE IF schedule_info.interval = "daily"
             THEN <<[unit |-> "day", scythe_id |-> scythe.id]>>
        ELSE IF schedule_info.interval = "weekly" /\ schedule_info.weekdays # <<>>
             THEN weekly_jobs(schedule_info.weekdays, scythe.id)
        ELSE <<>>

\* a variant of schedule.clear() that leaves the registered triggers in place
schedule_clear_keeps_jobs(registered) == registered

\* schedule.clear()
schedule_clear(registered) == <<>>

\* the triggers after the loop over the Scythes
RECURSIVE schedule_all(_, _)
schedule_all(list, registered) ==
    IF list = <<>> THEN registered
    ELSE schedule_all(Tail(list), registered \o jobs_of_scythe(Head(list)))

\* the lists of Scythes and the triggers of an earlier run that a run can find
ReloadInputs ==
    {[pc |-> "input", scythes |-> [i \in 1..Len(ss) |-> [id |-> i - 1, schedule |-> ss[i]]],
      old_jobs |-> old, jobs |-> old] :
        ss \in SeqsUpTo(Schedules, MaxReloadScythes),
        old \in {<<>>, <<[unit |-> "day", scythe_id |-> 0]>>,
                 <<[unit |-> "friday", scythe_id |-> 5]>>}}

\* _load_and_schedule_jobs, running alone
_load_and_schedule_jobs ==
    /\ Serving
    /\ reload.pc = "input"
    /\ reload' = [reload EXCEPT !.pc = "loaded",
                                !.jobs = schedule_all(reload.scythes, schedule_clear(reload.jobs))]
    /\ UNCHANGED <<fs_vars, trigger, emitter_vars, san, conc_vars>>
    /\ UNCHANGED sm_vars /\ UNCHANGED worker_vars /\ UNCHANGED ghost_stop
    /\ UNCHANGED <<cancel_event, stop_mode, stop_pc>>
    /\ ProcFrame /\ UNCHANGED scythe_vars

\* ---- Scheduler._load_and_schedule_jobs: the day of a weekly trigger --------
\* One enabled weekly Scythe with one weekday.  Day 0 is a Monday on every
\* clock; a trigger schedule.every().<unit>.at("HH:MM") fires when the server's
\* clock shows that weekday and that time.
MaxWeeks == 2
WeeklyHours == {0, 12, 23}
WeeklyMinutes == {0, 30}

WeeklyInputs ==
    {[at_time_user |-> strftime(h, m), user_offset |-> u, server_offset |-> v,
      day_index |-> d, at_time_server |-> <<>>, unit |-> "none", fired |-> <<>>] :
        h \in WeeklyHours, m \in WeeklyMinutes, u \in Offsets, v \in Offsets, d \in 0..6}

WeeklyFrame ==
    /\ UNCHANGED fs_vars /\ UNCHANGED rest_vars
    /\ UNCHANGED sm_vars /\ UNCHANGED worker_vars /\ UNCHANGED ghost_stop
    /\ UNCHANGED <<cancel_event, stop_mode, stop_pc>>
    /\ ProcFrame /\ UNCHANGED scythe_vars

\* _load_and_schedule_jobs for the Scythe: the time is converted, the weekday
\* is taken as the client gave it
load_and_schedule_weekly ==
    /\ Serving
    /\ trigger # NoTrigger
    /\ trigger.unit = "none"
    /\ trigger' = [trigger EXCEPT
                      !.at_time_server = at_time_server(trigger.at_time_user,
                                                        trigger.user_offset,
                                                        trigger.server_offset),
                      !.unit = weekly_jobs(<<trigger.day_index>>, 0)[1].unit]
    /\ WeeklyFrame

\* the weekday (Monday = 0) and the time a clock at `offset` shows at `instant`
\* (minutes of UTC)
clock_at(instant, offset) ==
    LET local == instant + offset * 60
    IN  [weekday |-> (local \div MinutesPerDay) % 7,
         time |-> strftime((local \div 60) % 24, local % 60)]

\* schedule.run_pending() in week `week`: the trigger fires when the server's
\* clock shows the weekday `unit` and the time at_time_server
weekly_trigger_fires(week) ==
    /\ Serving
    /\ trigger # NoTrigger
    /\ trigger.unit # "none" /\ trigger.fired = <<>>
    /\ LET weekday == CHOOSE d \in 0..6 : DayNames[d + 1] = trigger.unit
           server_local == (7 * week + weekday) * MinutesPerDay
                           + 60 * parse_hour(trigger.at_time_server)
                           + parse_minute(trigger.at_time_server)
           instant == server_local - trigger.server_offset * 60
       IN  trigger' = [trigger EXCEPT !.fired = <<clock_at(instant, trigger.user_offset)>>]
    /\ WeeklyFrame

\* ---- the worker loop and the shutdown sequence ---------------------------
\* The loop of yt_dlp_worker, position by position, next to the main thread's
\* finally block: STOP_EVENT.set(), queue.put(None), WORKER_THREAD.join.  The
\* queue holds real jobs ("job") and the sentinel ("None").
MaxShutdownJobs == 3

\* what the models of concurrent calls leave alone
CoreIdleFrame ==
    /\ UNCHANGED <<fs_vars, trigger, emitter_vars, san, reload>>
    /\ UNCHANGED sm_vars /\ UNCHANGED worker_vars /\ UNCHANGED ghost_stop
    /\ UNCHANGED <<cancel_event, stop_mode, stop_pc>>
    /\ ProcFrame /\ UNCHANGED scythe_vars

NoShutdown == [main |-> "none", worker |-> "none", stop_event |-> FALSE,
               queue_paused_event |-> TRUE, queue |-> <<>>, seen |-> FALSE,
               started_after_seen |-> FALSE]

ShutdownFrame == CoreIdleFrame /\ UNCHANGED <<manager, reloads>>

\* the server is up and the worker thread is at the top of its loop
ShutdownStart == [NoShutdown EXCEPT !.main = "serving", !.worker = "while"]

RealJobs(q) == Cardinality({i \in 1..Len(q) : q[i] = "job"})

\* add_to_queue from a request thread: queue.put(job)
shutdown_add_to_queue ==
    /\ shutdown.main = "serving"
    /\ RealJobs(shutdown.queue) < MaxShutdownJobs
    /\ shutdown' = [shutdown EXCEPT !.queue = Append(@, "job")]
    /\ ShutdownFrame

\* pause_queue: queue_paused_event.clear()
shutdown_pause_queue ==
    /\ shutdown.main = "serving"
    /\ shutdown.queue_paused_event
    /\ shutdown' = [shutdown EXCEPT !.queue_paused_event = FALSE]
    /\ ShutdownFrame

\* resume_queue: queue_paused_event.set()
shutdown_resume_queue ==
    /\ shutdown.main = "serving"
    /\ ~shutdown.queue_paused_event
    /\ shutdown' = [shutdown EXCEPT !.queue_paused_event = TRUE]
    /\ ShutdownFrame

\* waitress.serve has returned; finally: STOP_EVENT.set()
main_stop_event_set ==
    /\ shutdown.main = "serving"
    /\ shutdown' = [shutdown EXCEPT !.main = "stop_set", !.stop_event = TRUE]
    /\ ShutdownFrame

\* state_manager.queue.put(None), then WORKER_THREAD.join(timeout=15)
main_put_sentinel ==
    /\ shutdown.main = "stop_set"
    /\ shutdown' = [shutdown EXCEPT !.main = "join", !.queue = Append(@, "None")]
    /\ ShutdownFrame

\* while not stop_event.is_set():
yt_dlp_worker_while ==
    /\ shutdown.worker = "while"
    /\ shutdown' = IF shutdown.stop_event
                   THEN [shutdown EXCEPT !.worker = "exited", !.seen = TRUE]
                   ELSE [shutdown EXCEPT !.worker = "wait"]
    /\ ShutdownFrame

\* state_manager.queue_paused_event.wait() returns once the event is set
yt_dlp_worker_wait ==
    /\ shutdown.worker = "wait"
    /\ shutdown.queue_paused_event
    /\ shutdown' = [shutdown EXCEPT !.worker = "get"]
    /\ ShutdownFrame

\* job = state_manager.queue.get(timeout=1); if job is None: break
yt_dlp_worker_get ==
    /\ shutdown.worker = "get"
    /\ shutdown.queue # <<>>
    /\ shutdown' = IF Head(shutdown.queue) = "None"
                   THEN [shutdown EXCEPT !.queue = Tail(@), !.worker = "exited",
                                         !.seen = TRUE]
                   ELSE [shutdown EXCEPT !.queue = Tail(@), !.worker = "job",
                                         !.started_after_seen = shutdown.seen]
    /\ ShutdownFrame

\* except queue.Empty: continue
yt_dlp_worker_timeout ==
    /\ shutdown.worker = "get"
    /\ shutdown.queue = <<>>
    /\ shutdown' = [shutdown EXCEPT !.worker = "while"]
    /\ ShutdownFrame

\* the job is processed and recorded; queue.task_done(); back to the loop test
yt_dlp_worker_job ==
    /\ shutdown.worker = "job"
    /\ shutdown' = [shutdown EXCEPT !.worker = "while"]
    /\ ShutdownFrame

yt_dlp_worker ==
    \/ yt_dlp_worker_while
    \/ yt_dlp_worker_wait
    \/ yt_dlp_worker_get
    \/ yt_dlp_worker_timeout
    \/ yt_dlp_worker_job

\* ---- two request threads in ScytheManager -------------------------------
\* Each thread makes one call of add, update or delete.  A call reads the file
\* in get_all (under file_lock), works on its own list, and writes the list in
\* _save_scythes (under file_lock); the lock is released between the two.
MaxStoredScythes == 2
ManagerThreads == {1, 2}
ManagerOps == {"add", "update", "delete"}

\* a stored Scythe: its id and who wrote it ("old", or the thread's name)
StoredScythe(id, data) == [id |-> id, data |-> data]

ThreadData(t) == IF t = 1 THEN "t1" ELSE "t2"

\* the files the calls can find: 0..MaxStoredScythes Scythes with ids 0, 1, ..
StoredFiles == {[i \in 1..n |-> StoredScythe(i - 1, "old")] : n \in 0..MaxStoredScythes}

ManagerCalls == {[pc |-> "call", op |-> op, scythe_id |-> id, scythes |-> <<>>, result |-> -1] :
                    op \in ManagerOps, id \in 0..(MaxStoredScythes - 1)}

ManagerInputs == {[pc |-> "run", file |-> f, th |-> th] :
                     f \in StoredFiles, th \in [ManagerThreads -> ManagerCalls]}

ManagerFrame == CoreIdleFrame /\ UNCHANGED <<shutdown, reloads>>

\* add: max_id over the list read, starting at -1
max_id(list) ==
    IF list = <<>> THEN -1
    ELSE CHOOSE m \in {list[i].id : i \in 1..Len(list)} :
            \A i \in 1..Len(list) : list[i].id <= m

\* scythes = self.get_all()
ScytheManager_get_all(t) ==
    /\ manager.pc = "run"
    /\ manager.th[t].pc = "call"
    /\ manager' = [manager EXCEPT !.th[t].pc = "loaded", !.th[t].scythes = manager.file]
    /\ ManagerFrame

\* add, after the read: new_id = max_id + 1; append; _save_scythes(scythes)
ScytheManager_add(t) ==
    /\ manager.pc = "run"
    /\ manager.th[t].pc = "loaded" /\ manager.th[t].op = "add"
    /\ LET new_id == max_id(manager.th[t].scythes) + 1
       IN manager' = [manager EXCEPT
                         !.file = Append(manager.th[t].scythes,
                                         StoredScythe(new_id, ThreadData(t))),
                         !.th[t].pc = "done", !.th[t].result = new_id]
    /\ ManagerFrame

\* update, after the read: replace the matching item and save, or save nothing
ScytheManager_update(t) ==
    /\ manager.pc = "run"
    /\ manager.th[t].pc = "loaded" /\ manager.th[t].op = "update"
    /\ LET list == manager.th[t].scythes
           id == manager.th[t].scythe_id
           updated == \E i \in 1..Len(list) : list[i].id = id
       IN manager' = [manager EXCEPT
                         !.file = IF updated
                                  THEN [i \in 1..Len(list) |->
                                           IF list[i].id = id
                                           THEN StoredScythe(id, ThreadData(t))
                                           ELSE list[i]]
                                  ELSE @,
                         !.th[t].pc = "done",
                         !.th[t].result = IF updated THEN 1 ELSE 0]
    /\ ManagerFrame

\* delete, after the read: drop the matching items and save, or save nothing
ScytheManager_delete(t) ==
    /\ manager.pc = "run"
    /\ manager.th[t].pc = "loaded" /\ manager.th[t].op = "delete"
    /\ LET list == manager.th[t].scythes
           id == manager.th[t].scythe_id
           kept == SelectSeq(list, LAMBDA x : x.id # id)
       IN manager' = [manager EXCEPT
                         !.file = IF Len(kept) < Len(list) THEN kept ELSE @,
                         !.th[t].pc = "done",
                         !.th[t].result = IF Len(kept) < Len(list) THEN 1 ELSE 0]
    /\ ManagerFrame

\* ---- concurrent runs of _load_and_schedule_jobs ---------------------------
\* A Scythe route's request thread and the file watcher's thread both call
\* _load_and_schedule_jobs; the scheduler thread runs schedule.run_pending.
\* No lock is taken: schedule.clear(), get_all() and each registration are
\* separate steps on the one list schedule.jobs.  Scythes here are daily.
MaxFileScythes == 2
ReloadThreads == {1, 2}

\* scythes.json: Scythes with ids 0, 1, .., each with schedule.enabled or not
ScytheFiles ==
    UNION {[1..n -> BOOLEAN] : n \in 1..MaxFileScythes}

\* schedule.jobs after a run that was not disturbed: one job per enabled Scythe
RECURSIVE registered_alone(_, _)
registered_alone(file, i) ==
    IF i > Len(file) THEN <<>>
    ELSE (IF file[i] THEN <<i - 1>> ELSE <<>>) \o registered_alone(file, i + 1)

ReloadCall == [pc |-> "call", scythes |-> <<>>, i |-> 1]

ReloadsInputs ==
    {[pc |-> "run", file |-> f, jobs |-> registered_alone(f, 1),
      th |-> [t \in ReloadThreads |-> ReloadCall],
      enqueued |-> [k \in 0..(Len(f) - 1) |-> 0], ticked |-> "no"] : f \in ScytheFiles}

ReloadsFrame == CoreIdleFrame /\ UNCHANGED <<shutdown, manager>>

ReloadsDone == \A t \in ReloadThreads : reloads.th[t].pc = "done"

\* schedule.clear()
reload_schedule_clear(t) ==
    /\ reloads.pc = "run"
    /\ reloads.th[t].pc = "call"
    /\ reloads' = [reloads EXCEPT !.jobs = <<>>, !.th[t].pc = "cleared"]
    /\ ReloadsFrame

\* scythes = self.scythe_manager.get_all()
reload_get_all(t) ==
    /\ reloads.pc = "run"
    /\ reloads.th[t].pc = "cleared"
    /\ reloads' = [reloads EXCEPT !.th[t].pc = "loop", !.th[t].scythes = reloads.file,
                                  !.th[t].i = 1]
    /\ ReloadsFrame

\* one pass of `for scythe in scythes`: skip a Scythe that is not enabled,
\* else schedule.every().day.at(...).do(...), which appends to schedule.jobs
reload_register(t) ==
    /\ reloads.pc = "run"
    /\ reloads.th[t].pc = "loop"
    /\ reloads.th[t].i <= Len(reloads.th[t].scythes)
    /\ LET i == reloads.th[t].i
       IN reloads' = [reloads EXCEPT
                         !.jobs = IF reloads.th[t].scythes[i] THEN Append(@, i - 1) ELSE @,
                         !.th[t].i = i + 1]
    /\ ReloadsFrame

\* the loop is over; the call returns
reload_return(t) ==
    /\ reloads.pc = "run"
    /\ reloads.th[t].pc = "loop"
    /\ reloads.th[t].i > Len(reloads.th[t].scythes)
    /\ reloads' = [reloads EXCEPT !.th[t].pc = "done"]
    /\ ReloadsFrame

\* the scheduler thread at a due time: schedule.run_pending() runs every job of
\* schedule.jobs, and each run enqueues its Scythe once
run_pending_tick ==
    /\ reloads.pc = "run"
    /\ reloads' = [reloads EXCEPT
                      !.enqueued = [k \in DOMAIN reloads.enqueued |->
                                       Cardinality({j \in 1..Len(reloads.jobs) :
                                                       reloads.jobs[j] = k})],
                      !.ticked = IF ReloadsDone THEN "after" ELSE "during"]
    /\ ReloadsFrame

\* ---- sanitize_filename on strings ----------------------------------------
\* A string is the sequence of its characters.  The names are built from a
\* period, a space, an illegal character and a letter; "-" is the replacement
\* character and "Untitled" stands for that word (letters only).  None of these
\* names is a reserved Windows name, and none is longer than MAX_FILENAME_LENGTH.
NameChars == {".", " ", "?", "a"}
MAX_FILENAME_LENGTH == 240
Untitled == <<"Untitled">>

\* re.sub(r'[\x00-\x1f\\/?*:"<>|]+', '-', safe_name): a run of illegal characters
\* becomes one "-"
RECURSIVE replace_illegal(_)
replace_illegal(x) ==
    IF x = <<>> THEN <<>>
    ELSE IF Head(x) = "?"
         THEN IF Len(x) > 1 /\ x[2] = "?" THEN replace_illegal(Tail(x))
              ELSE <<"-">> \o replace_illegal(Tail(x))
         ELSE <<Head(x)>> \o replace_illegal(Tail(x))

\* re.sub(r'\s+', ' ', safe_name): a run of whitespace becomes one space
RECURSIVE collapse_whitespace(_)
collapse_whitespace(x) ==
    IF x = <<>> THEN <<>>
    ELSE IF Head(x) = " " /\ Len(x) > 1 /\ x[2] = " " THEN collapse_whitespace(Tail(x))
         ELSE <<Head(x)>> \o collapse_whitespace(Tail(x))

\* str.strip(c): leading and trailing c removed
RECURSIVE lstrip(_, _)
lstrip(x, c) == IF x # <<>> /\ Head(x) = c THEN lstrip(Tail(x), c) ELSE x

RECURSIVE rstrip(_, _)
rstrip(x, c) == IF x # <<>> /\ x[Len(x)] = c THEN rstrip(SubSeq(x, 1, Len(x) - 1), c) ELSE x

strip(x, c) == rstrip(lstrip(x, c), c)

\* sanitize_filename: steps 2 (illegal characters), 3 (whitespace, strip),
\* 4 (strip of periods), the length test and 6 (empty result)
sanitize_name(name) ==
    IF name = <<>> THEN Untitled
    ELSE LET step2 == replace_illegal(name)
             step3 == strip(collapse_whitespace(step2), " ")
             step4 == strip(step3, ".")
             cut == IF Len(step4) > MAX_FILENAME_LENGTH
                    THEN SubSeq(step4, 1, MAX_FILENAME_LENGTH) ELSE step4
         IN  IF strip(cut, " ") = <<>> THEN Untitled ELSE cut

\* the names a caller can hand over
NameInputs == {[pc |-> "input", x |-> x, once |-> <<>>, twice |-> <<>>] :
                  x \in SeqsUpTo(NameChars, MaxNameLen)}

\* what a call of sanitize_filename leaves alone
SanitizeFrame ==
    /\ UNCHANGED <<fs_vars, trigger, emitter_vars, reload, conc_vars>>
    /\ UNCHANGED sm_vars /\ UNCHANGED worker_vars /\ UNCHANGED ghost_stop
    /\ UNCHANGED <<cancel_event, stop_mode, stop_pc>>
    /\ ProcFrame /\ UNCHANGED scythe_vars

\* sanitize_filename(x)
sanitize_first ==
    /\ san.pc = "input"
    /\ san' = [san EXCEPT !.pc = "once", !.once = sanitize_name(san.x)]
    /\ SanitizeFrame

\* sanitize_filename applied to the result
sanitize_again ==
    /\ san.pc = "once"
    /\ san' = [san EXCEPT !.pc = "twice", !.twice = sanitize_name(san.once)]
    /\ SanitizeFrame

\* ---- the broadcaster: state_emitter --------------------------------------
\* StateManager.__init__ sets history_state_version, queue_state_version and
\* current_download_version; it sets no scythe_state_version
HasScytheStateVersion == FALSE

\* one turn of the loop of state_emitter.  The four counters are read inside
\* `with g.state_manager._lock`; g.state_manager.scythe_state_version raises
\* AttributeError, the except branch logs it and sleeps 5 s.  With the attribute
\* the turn would compare, store the sample and emit get_current_state().
state_emitter ==
    /\ Serving
    /\ emitter_pc = "sample"
    /\ LockFree
    /\ IF ~HasScytheStateVersion
       THEN /\ emitter_pc' = "sleep"
            /\ UNCHANGED <<last_versions, emitted>>
       ELSE LET sample == [queue |-> queue_state_version, history |-> history_state_version,
                           current |-> current_download_version, scythes |-> 0]
            IN  /\ emitter_pc' = "sample"
                /\ last_versions' = sample
                /\ emitted' = IF sample # last_versions THEN emitted + 1 ELSE emitted
    /\ UNCHANGED <<fs_vars, trigger, san, reload, conc_vars>>
    /\ UNCHANGED sm_vars /\ UNCHANGED worker_vars /\ UNCHANGED ghost_stop
    /\ UNCHANGED <<cancel_event, stop_mode, stop_pc>>
    /\ ProcFrame /\ UNCHANGED scythe_vars

\* g.socketio.sleep(5) of the except branch returns
state_emitter_wakes ==
    /\ Serving
    /\ emitter_pc = "sleep"
    /\ emitter_pc' = "sample"
    /\ UNCHANGED <<last_versions, emitted>>
    /\ UNCHANGED <<fs_vars, trigger, san, reload, conc_vars>>
    /\ UNCHANGED sm_vars /\ UNCHANGED worker_vars /\ UNCHANGED ghost_stop
    /\ UNCHANGED <<cancel_event, stop_mode, stop_pc>>
    /\ ProcFrame /\ UNCHANGED scythe_vars

\* ---- process start: StateManager.__init__, load_state ---------------------
\* the fields StateManager.__init__ sets, and the threads before they start
FreshProcess ==
    /\ jobs = <<>> /\ queue = <<>> /\ history = <<>>
    /\ current_download = _get_default_current_download
    /\ next_log_id = 0 /\ next_queue_id = 0
    /\ history_state_version = 0 /\ queue_state_version = 0
    /\ current_download_version = 0
    /\ cancel_event = FALSE /\ stop_mode = "CANCEL" /\ queue_paused_event = TRUE
    /\ lock_owner = "none" /\ mutex_owner = "none"
    /\ pc = "idle" /\ job = NoJob /\ status = "PENDING"
    /\ log_id_for_file = NoId /\ dequeued_id = NoId /\ process = "none"
    /\ stop_pc = "idle" /\ stop_during_job = FALSE
    /\ n_dequeued = 0 /\ n_recorded = 0

\* first start with an empty data directory: load_state finds no file and returns
InitCore ==
    /\ FreshProcess
    /\ state_file = NoFile
    /\ main_pc = "serving" /\ lifetime = 0 /\ crash_active = <<>>
    /\ clear_run = 0 /\ clear_base = 0
    /\ scythes = <<>> /\ sched_pc = "running" /\ schedule_jobs = {}
    /\ route_pc = "none"
    /\ emitter_pc = "sample" /\ last_versions = NoSample /\ emitted = 0

NoManager == [pc |-> "none"]
NoReloads == [pc |-> "none"]

\* no model of concurrent calls is in use
ConcIdle == shutdown = NoShutdown /\ manager = NoManager /\ reloads = NoReloads

\* no job has been prepared, the download folder is empty
InitFiles == fs_scratch = <<>> /\ fs_dest = [n \in DestNames |-> 0] /\ fin = NoFin

Init == InitCore /\ InitFiles /\ trigger = NoTrigger /\ san = NoName /\ reload = NoReload
    /\ ConcIdle

\* the worker has called update_current_download for its job and _finalize_job
\* has not run yet
ActiveUnfinalized == pc \in {"prepare", "running", "terminate", "wait_term"}

\* the process is killed; a new process runs StateManager.__init__; the files stay
Crash ==
    /\ lifetime < MaxCrashes
    /\ main_pc = "serving"
    /\ jobs' = <<>> /\ queue' = <<>> /\ history' = <<>>
    /\ current_download' = _get_default_current_download
    /\ next_log_id' = 0 /\ next_queue_id' = 0
    /\ history_state_version' = 0 /\ queue_state_version' = 0
    /\ current_download_version' = 0
    /\ cancel_event' = FALSE /\ stop_mode' = "CANCEL" /\ queue_paused_event' = TRUE
    /\ lock_owner' = "none" /\ mutex_owner' = "none"
    /\ pc' = "idle" /\ job' = NoJob /\ status' = "PENDING"
    /\ log_id_for_file' = NoId /\ dequeued_id' = NoId /\ process' = "none"
    /\ stop_pc' = "idle" /\ stop_during_job' = FALSE
    /\ n_dequeued' = 0 /\ n_recorded' = 0
    /\ main_pc' = "startup"
    /\ lifetime' = lifetime + 1
    /\ crash_active' = IF ActiveUnfinalized THEN <<jobs[job].id>> ELSE <<>>
    /\ clear_run' = 0 /\ clear_base' = 0
    /\ sched_pc' = "running"
    /\ schedule_jobs' = scheduled(scythes)
    /\ route_pc' = "none"
    /\ emitter_pc' = "sample" /\ last_versions' = NoSample
    /\ UNCHANGED <<state_file, scythes, fs_vars, trigger, emitted, san, reload, conc_vars>>

\* self.history = [...] of _apply_state: every row's job_data is a new dict
RECURSIVE LoadRows(_, _, _)
LoadRows(vals, heap, acc) ==
    IF vals = <<>> THEN [heap |-> heap, rows |-> acc]
    ELSE LET v == Head(vals)
             row == [log_id |-> v.log_id, status |-> v.status,
                     job_data |-> IF v.job_data = <<>> THEN NoJob ELSE Len(heap) + 1,
                     error_summary |-> v.error_summary]
         IN  LoadRows(Tail(vals),
                      IF v.job_data = <<>> THEN heap ELSE Append(heap, v.job_data[1]),
                      Append(acc, row))

\* _reset_state
_reset_state ==
    /\ history' = <<>>
    /\ queue' = <<>>
    /\ next_log_id' = 0
    /\ next_queue_id' = 0
    /\ UNCHANGED <<jobs, current_download, history_state_version, queue_state_version,
                   current_download_version, queue_paused_event, lock_owner, mutex_owner>>

\* _apply_state(state): history and ids are loaded, the abandoned job is turned
\* into a history row, then the queue is rebuilt with queue.put under queue.mutex
_apply_state(state) ==
    LET loaded == LoadRows(state.history, <<>>, <<>>)
        max_log_id == MaxOf([i \in 1..Len(state.history) |-> state.history[i].log_id], -1)
        max_queue_id == MaxOf([i \in 1..Len(state.queue) |-> state.queue[i].id], -1)
        abandoned == state.current_job # <<>>
        heap == IF abandoned THEN Append(loaded.heap, state.current_job[1]) ELSE loaded.heap
        abandoned_row == [log_id |-> max_log_id + 1, status |-> "ABANDONED",
                          job_data |-> Len(heap),
                          error_summary |-> "Job was interrupted by an application crash"]
    IN  /\ jobs' = heap
        /\ history' = IF abandoned THEN Append(loaded.rows, abandoned_row) ELSE loaded.rows
        /\ next_log_id' = IF abandoned THEN max_log_id + 2 ELSE max_log_id + 1
        /\ history_state_version' = IF abandoned THEN history_state_version + 1
                                    ELSE history_state_version
        /\ next_queue_id' = max_queue_id + 1
        /\ queue' = <<>>
        /\ IF PutUnderMutexBlocks(state.queue)
           THEN lock_owner' = "main" /\ mutex_owner' = "main"
           ELSE UNCHANGED <<lock_owner, mutex_owner>>
        /\ UNCHANGED <<current_download, queue_state_version, current_download_version,
                       queue_paused_event>>

\* load_state, followed by the start of the worker and of the server
load_state ==
    /\ main_pc = "startup"
    /\ \E lock_ok \in BOOLEAN :
          IF ~lock_ok
          THEN _reset_state /\ UNCHANGED state_file     \* _acquire_lock returned False
          ELSE IF ~state_file.exists
          THEN UNCHANGED sm_vars                        \* "Starting with a fresh state."
          ELSE _apply_state(state_file) /\ UNCHANGED state_file
    /\ main_pc' = IF lock_owner' = "main" THEN "hung" ELSE "serving"
    /\ UNCHANGED <<cancel_event, stop_mode, stop_pc, stop_during_job, lifetime, crash_active>>
    /\ clear_run' = 0 /\ clear_base' = 0
    /\ UNCHANGED worker_vars /\ UNCHANGED scythe_vars /\ UNCHANGED side_vars

\* ---- specifications -------------------------------------------------------
\* Request arguments.  A job id that no queued job has is compared with the ids
\* of the queued jobs and matches none, whatever its value: next_queue_id, which
\* no job has yet, stands for all of them.  Likewise next_log_id for log ids.
JobIds == {jobs[queue[i]].id : i \in 1..Len(queue)} \cup {next_queue_id}
LogIds == {history[i].log_id : i \in 1..Len(history)} \cup {next_log_id}
OrderLists == SeqsUpTo(JobIds, MaxOrderLen)

WorkerStep ==
    \/ worker_wait_paused
    \/ worker_get_job
    \/ worker_get_empty
    \/ worker_clear_cancel
    \/ worker_set_stop_mode
    \/ worker_update_current
    \/ worker_prepare
    \/ worker_progress
    \/ worker_run_ends
    \/ worker_reset_current
    \/ worker_add_history
    \/ worker_update_history

\* the cancellation branch of _run_download_process, reached only after stop_route
\* has set cancel_event
WorkerCancelStep ==
    \/ worker_sees_cancel
    \/ worker_terminate
    \/ worker_wait_returns
    \/ worker_kill

\* the worker thread where Stop requests are made
WorkerThread == WorkerStep \/ WorkerCancelStep

\* the yt-dlp process, which the worker does not control until it signals it
ProcessStep == \E rc \in {0, 1} : process_exits(rc)

StopStep ==
    \/ \E mode \in {"CANCEL", "SAVE"} : stop_route_set_mode(mode)
    \/ stop_route_set_event

\* the StateManager mutators the queue and history routes call
Next ==
    \/ add_to_queue_route
    \/ clear_queue
    \/ \E job_id \in JobIds : delete_from_queue(job_id)
    \/ \E ordered_ids \in OrderLists : reorder_queue(ordered_ids)
    \/ pause_queue
    \/ resume_queue
    \/ clear_history
    \/ \E log_id \in LogIds : delete_from_history(log_id)
    \/ WorkerStep
    \/ ProcessStep

Spec == Init /\ [][Next]_vars

\* only the calls enqueue, delete, reorder and stop, and the worker
NextQueueOps ==
    \/ add_to_queue_route
    \/ \E job_id \in JobIds : delete_from_queue(job_id)
    \/ \E ordered_ids \in OrderLists : reorder_queue(ordered_ids)
    \/ StopStep
    \/ WorkerStep
    \/ WorkerCancelStep
    \/ ProcessStep

SpecQueueOps == Init /\ [][NextQueueOps]_vars

\* re-queueing finished jobs from the history
NextRequeue ==
    \/ add_to_queue_route
    \/ \E log_id \in LogIds : continue_job_route(log_id)
    \/ \E job_id \in JobIds : delete_from_queue(job_id)
    \/ \E log_id \in LogIds : delete_from_history(log_id)
    \/ WorkerStep
    \/ ProcessStep

SpecRequeue == Init /\ [][NextRequeue]_vars

\* enqueue and stop requests, the worker and its process; the worker thread is
\* scheduled fairly, the requests and the exit of the process are not forced
NextStop ==
    \/ add_to_queue_route
    \/ StopStep
    \/ WorkerStep
    \/ WorkerCancelStep
    \/ ProcessStep

SpecStop == Init /\ [][NextStop]_vars /\ WF_vars(WorkerThread)

\* ids a Scythe request can name: the stored ones and one that no Scythe has
ScytheIds == {scythes[i].id : i \in 1..Len(scythes)} \cup {Len(scythes)}

\* Scythes are saved and reaped by hand beside ordinary enqueues; the worker runs
NextReap ==
    \/ add_to_queue_route
    \/ \E url \in ScytheUrls, enabled \in BOOLEAN : add_scythe_route(url, enabled)
    \/ \E scythe_id \in ScytheIds : reap_scythe_route(scythe_id)
    \/ WorkerStep
    \/ ProcessStep

SpecReap == Init /\ [][NextReap]_vars

\* enqueues that are saved and enqueues whose save fails, clear_queue, the worker
NextSaveFails ==
    \/ add_to_queue_route
    \/ add_to_queue_route_save_fails
    \/ clear_queue
    \/ WorkerStep
    \/ ProcessStep

SpecSaveFails == Init /\ [][NextSaveFails]_vars

\* Scythes are saved, changed and deleted; the file watcher and the triggers run
NextSchedule ==
    \/ \E url \in ScytheUrls, enabled \in BOOLEAN : add_scythe_route(url, enabled)
    \/ \E scythe_id \in ScytheIds, url \in ScytheUrls, enabled \in BOOLEAN :
          update_scythe_route(scythe_id, url, enabled)
    \/ \E scythe_id \in ScytheIds : delete_scythe_route(scythe_id)
    \/ on_modified
    \/ \E scythe_id \in schedule_jobs : _reap_scythe(scythe_id)

SpecSchedule == Init /\ [][NextSchedule]_vars

\* the same requests statement by statement: a trigger can run between the
\* ScytheManager call of a route and the reload of the schedule
NextStaleTrigger ==
    \/ \E url \in ScytheUrls, enabled \in BOOLEAN : add_scythe_route(url, enabled)
    \/ \E scythe_id \in ScytheIds, url \in ScytheUrls, enabled \in BOOLEAN :
          update_scythe_route_update(scythe_id, url, enabled)
    \/ \E scythe_id \in ScytheIds : delete_scythe_route_delete(scythe_id)
    \/ scythe_route_reload
    \/ on_modified
    \/ \E scythe_id \in schedule_jobs : _reap_scythe(scythe_id)

SpecStaleTrigger == Init /\ [][NextStaleTrigger]_vars

\* one schedule, any time and any pair of clocks, is registered
InitTrigger ==
    InitCore /\ InitFiles /\ trigger \in TriggerInputs /\ san = NoName /\ reload = NoReload
    /\ ConcIdle

NextTrigger == load_and_schedule_jobs

SpecTrigger == InitTrigger /\ [][NextTrigger]_vars

\* the state_emitter task
EmitterStep == state_emitter \/ state_emitter_wakes

\* enqueues and the worker change the counters; the emitter task is scheduled fairly
NextBroadcast ==
    \/ add_to_queue_route
    \/ WorkerStep
    \/ ProcessStep
    \/ EmitterStep

SpecBroadcast == Init /\ [][NextBroadcast]_vars /\ WF_vars(EmitterStep)

\* one name, any string up to MaxNameLen, is sanitized and sanitized again
InitSanitize ==
    InitCore /\ InitFiles /\ trigger = NoTrigger /\ san \in NameInputs /\ reload = NoReload
    /\ ConcIdle

NextSanitize == sanitize_first \/ sanitize_again

SpecSanitize == InitSanitize /\ [][NextSanitize]_vars

\* one list of Scythes, with triggers left from an earlier run, is scheduled
InitReload ==
    InitCore /\ InitFiles /\ trigger = NoTrigger /\ san = NoName /\ reload \in ReloadInputs
    /\ ConcIdle

NextReload == _load_and_schedule_jobs

SpecReload == InitReload /\ [][NextReload]_vars

\* two calls have arrived, neither has read the file yet
InitManager ==
    /\ InitCore /\ InitFiles /\ trigger = NoTrigger /\ san = NoName /\ reload = NoReload
    /\ shutdown = NoShutdown /\ manager \in ManagerInputs /\ reloads = NoReloads

NextManager ==
    \E t \in ManagerThreads :
        \/ ScytheManager_get_all(t)
        \/ ScytheManager_add(t)
        \/ ScytheManager_update(t)
        \/ ScytheManager_delete(t)

SpecManager == InitManager /\ [][NextManager]_vars

\* both threads are about to call _load_and_schedule_jobs
InitReloads ==
    /\ InitCore /\ InitFiles /\ trigger = NoTrigger /\ san = NoName /\ reload = NoReload
    /\ shutdown = NoShutdown /\ manager = NoManager /\ reloads \in ReloadsInputs

NextReloads ==
    \/ \E t \in ReloadThreads :
          \/ reload_schedule_clear(t)
          \/ reload_get_all(t)
          \/ reload_register(t)
          \/ reload_return(t)
    \/ run_pending_tick

SpecReloads == InitReloads /\ [][NextReloads]_vars

\* one weekly schedule, any pair of clocks, is registered and fires
InitWeekly ==
    InitCore /\ InitFiles /\ trigger \in WeeklyInputs /\ san = NoName /\ reload = NoReload
    /\ ConcIdle

NextWeekly ==
    \/ load_and_schedule_weekly
    \/ \E week \in 1..MaxWeeks : weekly_trigger_fires(week)

SpecWeekly == InitWeekly /\ [][NextWeekly]_vars

\* the server is up, nothing is queued, the queue is not paused
InitShutdown ==
    /\ InitCore /\ InitFiles /\ trigger = NoTrigger /\ san = NoName /\ reload = NoReload
    /\ shutdown = ShutdownStart /\ manager = NoManager /\ reloads = NoReloads

NextShutdown ==
    \/ shutdown_add_to_queue
    \/ shutdown_pause_queue
    \/ shutdown_resume_queue
    \/ main_stop_event_set
    \/ main_put_sentinel
    \/ yt_dlp_worker

\* the worker thread and the main thread keep running
SpecShutdown ==
    InitShutdown /\ [][NextShutdown]_vars
    /\ WF_vars(yt_dlp_worker) /\ WF_vars(main_put_sentinel)

\* the statuses the worker passes to _finalize_job
RunStatuses == {"COMPLETED", "FAILED", "CANCELLED", "STOPPED", "ERROR"}

\* one job after the other goes through prepare, download and finalize, all
\* into the same download folder
NextFinalize ==
    \/ \E target_ext \in TargetExts, archive \in BOOLEAN, made \in BOOLEAN :
          fin_prepare(target_ext, archive, made)
    \/ \E files \in SUBSET Downloadable, writes_archive \in BOOLEAN,
          run_status \in RunStatuses : fin_download(files, writes_archive, run_status)
    \/ fin_finalize

SpecFinalize == Init /\ [][NextFinalize]_vars

\* the mutators and the worker, with process crashes and restarts
NextRecovery ==
    \/ Next
    \/ Crash
    \/ load_state

SpecRecovery == Init /\ [][NextRecovery]_vars

TypeOK ==
    /\ pc \in {"idle", "get", "clear_cancel", "set_stop_mode", "update_current", "prepare",
               "running", "terminate", "wait_term", "reset_current", "add_history",
               "update_history", "dead"}
    /\ sched_pc \in {"running", "dead"}
    /\ route_pc \in {"none", "reload"}
    /\ emitter_pc \in {"sample", "sleep"}
    /\ \A i \in 1..Len(scythes) : scythes[i].job_data.url \in ScytheUrls
    /\ \A r \in 1..Len(jobs) : jobs[r].url \in ScytheUrls
    /\ process \in {"none", "running", "exited0", "exited1"}
    /\ lock_owner \in {"none", "request", "main"}
    /\ mutex_owner = lock_owner
    /\ \A i \in 1..Len(queue) : queue[i] \in 1..Len(jobs)
    /\ \A i \in 1..Len(history) : history[i].job_data \in 0..Len(jobs)
    /\ job \in 0..Len(jobs)


\* ---- properties ------------------------------------------------------------
\* rows of `hist` whose job_data is the dict r
RowsOf(hist, r) == {i \in 1..Len(hist) : hist[i].job_data = r}

\* C1: under enqueue, delete, reorder and stop calls, the pass of the worker that
\* dequeued a job ends with exactly one history row for that job: the row did not
\* exist when the finally block appended its placeholder, it is the row whose
\* log_id the pass was given, its job_data.id is the id the job had when it was
\* dequeued, its status is one of COMPLETED, PARTIAL, FAILED, CANCELLED, STOPPED,
\* ERROR, and the passes so far have left one row each.
C1_OneRowPerDequeuedJob ==
    [][(pc = "update_history" /\ pc' = "idle") =>
          /\ RowsOf(history, job) = {}
          /\ Cardinality(RowsOf(history', job)) = 1
          /\ \A i \in RowsOf(history', job) :
                /\ history'[i].log_id = log_id_for_file
                /\ jobs'[history'[i].job_data].id = dequeued_id
                /\ history'[i].status \in TerminalStatuses
          /\ Len(history') = n_dequeued
          /\ Len(history') = Len(history)]_vars

\* C1 witness: two passes have ended, the second job was stopped with mode SAVE,
\* and each job has its own row
C1_Witness ==
    /\ pc = "idle" /\ n_recorded = 2 /\ Len(history) = 2
    /\ history[1].job_data # history[2].job_data
    /\ history[1].status \in TerminalStatuses
    /\ history[2].status = "STOPPED"

\* C2: when the process was killed while a job was between update_current_download
\* and _finalize_job, the _apply_state of the next start leaves exactly one
\* ABANDONED row whose job_data.id is that job's id, and the job is neither in the
\* persisted queue that is reloaded nor in the queue in memory.
C2_CrashedJobIsAbandoned ==
    [][(main_pc = "startup" /\ crash_active # <<>> /\ state_file.exists
        /\ _apply_state(state_file)) =>
          /\ Cardinality({i \in 1..Len(history') :
                             /\ history'[i].status = "ABANDONED"
                             /\ history'[i].job_data # NoJob
                             /\ jobs'[history'[i].job_data].id = crash_active[1]}) = 1
          /\ \A i \in 1..Len(state_file.queue) : state_file.queue[i].id # crash_active[1]
          /\ \A i \in 1..Len(queue') : jobs'[queue'[i]].id # crash_active[1]]_vars

\* C3: no call of delete_from_queue or reorder_queue stays blocked: in every
\* reachable state StateManager._lock and queue.mutex are not held by a thread
\* that will never release them.
C3_CallsReturn == lock_owner = "none" /\ mutex_owner = "none"

\* C4: within one lifetime of the StateManager (no restart of the process) none of
\* queue_state_version, history_state_version, current_download_version ever
\* decreases; the steps include load_state, _reset_state, clear_queue and
\* clear_history.
C4_VersionsNeverDecrease ==
    [][lifetime' = lifetime =>
          /\ queue_state_version' >= queue_state_version
          /\ history_state_version' >= history_state_version
          /\ current_download_version' >= current_download_version]_vars

\* C4 witness: a restarted StateManager has loaded a state file with an abandoned
\* job (a history bump made by _apply_state), then enqueued a job, and the worker
\* has reset the current download
C4_Witness ==
    /\ lifetime = 1 /\ main_pc = "serving"
    /\ \E i \in 1..Len(history) : history[i].status = "ABANDONED"
    /\ history_state_version >= 1
    /\ queue_state_version >= 1
    /\ pc = "add_history" /\ current_download_version >= 3

\* C5: every step that returns and changes the contents of the queue adds exactly
\* 1 to queue_state_version, and every step that changes the history rows adds
\* exactly 1 to history_state_version.
C5_ChangeBumpsVersionByOne ==
    [][(lifetime' = lifetime /\ lock_owner' = "none") =>
          /\ (queue' # queue => queue_state_version' = queue_state_version + 1)
          /\ (history' # history => history_state_version' = history_state_version + 1)]_vars

\* occurrences of x in the sequence s
Count(s, x) == Cardinality({i \in 1..Len(s) : s[i] = x})

\* C6: after reorder_queue(ordered_ids), for every list of ids, every job that
\* was in the queue is in the queue exactly once and no other job is in it.
C6_ReorderKeepsEveryJobOnce ==
    [][(\E ordered_ids \in OrderLists : reorder_queue(ordered_ids)) =>
          \A r \in 1..Len(jobs) :
              Count(queue', r) = (IF Count(queue, r) > 0 THEN 1 ELSE 0)]_vars

\* C7: a clear_queue call on an empty queue changes nothing the StateManager
\* holds and leaves queue_state_version as it is; after two or more clear_queue
\* calls in a row queue_state_version is at most 1 above its value before the
\* first of them.
C7_ClearEmptyQueueIsNoOp ==
    [][clear_queue =>
          /\ queue' = <<>>
          /\ (queue = <<>> => UNCHANGED sm_vars)
          /\ (clear_run' = 2 => /\ queue_state_version' = queue_state_version
                                /\ queue_state_version' <= clear_base' + 1)]_vars

\* C7 witness: clear_queue emptied a queue (one bump), and was called again
C7_Witness ==
    /\ clear_run = 2 /\ queue = <<>>
    /\ queue_state_version = clear_base + 1

\* C8: the ids of the jobs in the queue are pairwise distinct.
C8_QueueIdsDistinct ==
    \A i, k \in 1..Len(queue) : i # k => jobs[queue[i]].id # jobs[queue[k]].id

\* C9: the worker is serial and takes jobs in queue order: a job is dequeued only
\* when no job is active and every earlier pass has made its history write, the
\* job taken is the head of the queue, at most one dequeued job is without its
\* history write, and a step that is not a delete, reorder or clear call keeps
\* the queued jobs in their order (it removes the head or appends at the end).
C9_SerialInQueueOrder ==
    [][/\ (n_dequeued' # n_dequeued /\ lifetime' = lifetime) =>
              /\ job = NoJob /\ n_recorded = n_dequeued
              /\ job' = Head(queue) /\ queue' = Tail(queue)
       /\ n_dequeued' - n_recorded' \in {0, 1}
       /\ (job' # NoJob) = (n_dequeued' = n_recorded' + 1)
       /\ (~ \/ clear_queue
             \/ \E job_id \in JobIds : delete_from_queue(job_id)
             \/ \E ordered_ids \in OrderLists : reorder_queue(ordered_ids)) =>
              \/ queue' = queue
              \/ queue # <<>> /\ queue' = Tail(queue)
              \/ \E r \in 1..Len(jobs') : queue' = Append(queue, r)]_vars

\* C9 witness: job 0 was enqueued before job 1; job 0 has its history row and
\* job 1 has just been dequeued
C9_Witness ==
    /\ n_dequeued = 2 /\ n_recorded = 1 /\ pc = "clear_cancel"
    /\ dequeued_id = 1
    /\ \E i \in 1..Len(history) :
          /\ history[i].job_data # NoJob
          /\ jobs[history[i].job_data].id = 0
          /\ history[i].status \in TerminalStatuses

\* C10: the two statements of stop_route leave the queue and the job dicts as
\* they are, and a job gets the status CANCELLED or STOPPED only if
\* cancel_event.set() ran while that job was the active one: a stop made while
\* the worker was idle, or after the status was decided, cancels no later job.
C10_StopOnlyHitsActiveJob ==
    [][/\ StopStep => (queue' = queue /\ jobs' = jobs)
       /\ (status' \in {"CANCELLED", "STOPPED"} /\ status' # status) => stop_during_job]_vars

\* C10 witness: the first job was cancelled, a stop request was made again after
\* its status was decided, and the next job has completed
C10_Witness ==
    /\ Len(history) = 1 /\ history[1].status = "CANCELLED"
    /\ pc = "reset_current" /\ status = "COMPLETED"
    /\ n_dequeued = 2 /\ queue = <<>>

\* C11: if cancel_event is set while the yt-dlp process of the n-th job is
\* running, then, the worker being scheduled fairly, the pass of that job ends:
\* the process is terminated (killed when it does not exit after the
\* termination signal), _finalize_job has run, the job's history row is written
\* with status CANCELLED or STOPPED, and the current download is reset.  The
\* process is never forced to exit by itself and no further output is assumed.
C11_StopEndsActiveJob ==
    \A n \in 1..MaxPasses :
        (pc = "running" /\ process = "running" /\ cancel_event /\ n_dequeued = n)
        ~> (/\ pc = "idle" /\ n_recorded = n /\ process = "none"
            /\ current_download = _get_default_current_download
            /\ Len(history) = n
            /\ history[n].status \in {"CANCELLED", "STOPPED"}
            /\ history[n].job_data # NoJob)

\* C11 witness: the stop was requested while the process was running, the
\* termination signal has been sent and the process has not exited
C11_Witness ==
    /\ pc = "wait_term" /\ process = "running" /\ cancel_event /\ stop_during_job

\* C12: no job taken from the queue makes the worker leave its loop; whatever the
\* job dict holds (also one without a 'url' key, reaped from a Scythe), the worker
\* thread stays in yt_dlp_worker and goes on to the next dequeue.
C12_WorkerNeverLeavesLoop == pc # "dead"

C14_FinalizeKeepsExistingFiles ==
    fin.pc = "finalized"
    => \A n \in DestNames \ {MainArchive} :
          fin.dest_at_start[n] # 0 => fs_dest[n] = fin.dest_at_start[n]

\* C15: when persisting the state fails inside a StateManager mutator, the
\* in-memory queue is returned to its value before the call and the version
\* counter is not incremented (and the caller receives an error).
C15_FailedSaveRollsBack ==
    [][add_to_queue_route_save_fails
       => (queue' = queue /\ queue_state_version' = queue_state_version
           /\ next_queue_id' = next_queue_id)]_vars

\* C16: after the worker has taken a job from the queue and before it prepares
\* or runs it, the persisted queue equals the in-memory queue: the taken job is
\* no longer in the queue of state.json.
C16_PersistedQueueMatchesAfterPop ==
    pc \in {"clear_cancel", "set_stop_mode", "update_current"}
    => /\ state_file.exists
       /\ state_file.queue = [i \in 1..Len(queue) |-> jobs[queue[i]]]

\* C17: when a trigger fires for a Scythe that exists and is enabled, exactly one
\* job with the Scythe's url is appended to the queue, exactly one history row
\* with status INFO and without job_data is written, and the scheduler loop keeps
\* running.
C17_TriggerEnqueuesAndNotifies ==
    [][\A scythe_id \in schedule_jobs :
          (/\ _reap_scythe(scythe_id)
           /\ get_by_id(scythes, scythe_id) # <<>>
           /\ get_by_id(scythes, scythe_id)[1].enabled)
          => /\ Len(queue') = Len(queue) + 1
             /\ jobs'[queue'[Len(queue')]].url = get_by_id(scythes, scythe_id)[1].job_data.url
             /\ Len(history') = Len(history) + 1
             /\ history'[Len(history')].status = "INFO"
             /\ history'[Len(history')].job_data = NoJob
             /\ sched_pc' = "running"]_vars

\* C18: for a daily Scythe with time HH:MM in the user's time zone and a process
\* time zone that differs from it by N whole hours (N = user offset - server
\* offset, N in -23..23), the registered server-side time is HH:MM - N modulo
\* 24 hours.
C18_ServerTimeIsUserTimeMinusN ==
    (trigger # NoTrigger /\ trigger.at_time_server # <<>>)
    => LET N == trigger.user_offset - trigger.server_offset
           user_minutes == 60 * parse_hour(trigger.at_time_user)
                           + parse_minute(trigger.at_time_user)
           server_minutes == 60 * parse_hour(trigger.at_time_server)
                             + parse_minute(trigger.at_time_server)
       IN  /\ (N \in -23..23 =>
                 server_minutes = (user_minutes - 60 * N + 2 * MinutesPerDay) % MinutesPerDay)
           /\ \A i \in 1..4 : trigger.at_time_server[i] \in Digit
           /\ parse_hour(trigger.at_time_server) \in Hours

\* 00:30 on a clock 8 hours ahead of the server's is 16:30 of the day before
C18_Witness ==
    /\ trigger # NoTrigger
    /\ trigger.at_time_user = <<0, 0, 3, 0>>
    /\ trigger.user_offset - trigger.server_offset = 8
    /\ trigger.at_time_server = <<1, 6, 3, 0>>

\* C19: after any sequence of ScytheManager add, update and delete calls, no two
\* stored Scythes have the same job_data.url.
C19_ScytheUrlsDistinct ==
    \A i, k \in 1..Len(scythes) :
        (i # k /\ scythes[i].job_data.url # NoUrl)
        => scythes[i].job_data.url # scythes[k].job_data.url

\* C20: each successful ScytheManager add, update or delete increments a version
\* counter, so that a client that re-reads the state after the change sees at least
\* one version counter strictly greater than before.
C20_ScytheChangeBumpsAVersion ==
    [][scythes' # scythes
       => \/ queue_state_version' > queue_state_version
          \/ history_state_version' > history_state_version
          \/ current_download_version' > current_download_version]_vars

\* the counters differ from the emitter's last sample
CountersChanged ==
    \/ queue_state_version # last_versions.queue
    \/ history_state_version # last_versions.history
    \/ current_download_version # last_versions.current

\* C21: whenever a version counter has changed since the broadcaster's last
\* sample, the broadcaster eventually takes the new sample and emits one snapshot
\* of the state.
C21_ChangedCountersAreEmitted == CountersChanged ~> (~CountersChanged /\ emitted > 0)

\* C22: sanitize_filename is idempotent: sanitizing a sanitized name gives the
\* same name, also for names that mix periods and whitespace at the ends.
C22_SanitizeIsIdempotent == san.pc = "twice" => san.twice = san.once

\* C23: the job_data stored in the history row of a finished job never changes:
\* a row with a terminal status that exists before and after a step (same
\* log_id) holds the same job (id, resolved_folder, url) after it as before.
C23_HistoryJobDataIsFrozen ==
    [][\A i \in 1..Len(history), k \in 1..Len(history') :
          (/\ history[i].log_id = history'[k].log_id
           /\ history[i].status \in TerminalStatuses
           /\ history[i].job_data # NoJob /\ history'[k].job_data # NoJob) =>
              jobs'[history'[k].job_data] = jobs[history[i].job_data]]_vars

\* the queued jobs with the ids of a list, in the order of the list, each id once
RECURSIVE QueuedInOrderOf(_, _, _)
QueuedInOrderOf(heap, items, ids) ==
    IF ids = <<>> THEN <<>>
    ELSE LET rest == SelectSeq(Tail(ids), LAMBDA id : id # Head(ids))
         IN  SelectSeq(items, LAMBDA r : heap[r].id = Head(ids))
             \o QueuedInOrderOf(heap, items, rest)

\* C24: reorder_queue(ordered_ids) leaves the queue equal to the queued jobs
\* whose ids occur in ordered_ids, in the order of ordered_ids, followed by the
\* queued jobs whose ids do not occur in it, in their previous order; ids that
\* match no queued job have no effect.
C24_ReorderResult ==
    [][\A ordered_ids \in OrderLists :
          reorder_queue(ordered_ids) =>
              queue' = QueuedInOrderOf(jobs, queue, ordered_ids)
                       \o SelectSeq(queue, LAMBDA r :
                              \A i \in 1..Len(ordered_ids) : jobs[r].id # ordered_ids[i])]_vars

\* the largest id among the jobs of a non-empty queue
max_queued_id(heap, items) ==
    CHOOSE n \in {heap[items[i]].id : i \in 1..Len(items)} :
        \A i \in 1..Len(items) : heap[items[i]].id <= n

\* C25: add_to_queue gives the new job the id 1 + (largest id among the jobs in
\* the queue), or 0 when the queue is empty, and appends it at the tail.
C25_EnqueueIdIsMaxPlusOne ==
    [][add_to_queue_route =>
          /\ Len(queue') = Len(queue) + 1
          /\ SubSeq(queue', 1, Len(queue)) = queue
          /\ jobs'[queue'[Len(queue')]].id =
                 (IF queue = <<>> THEN 0 ELSE 1 + max_queued_id(jobs, queue))]_vars

\* the step that ends _run_download_process for a started process
RunDecided ==
    /\ pc \in {"running", "terminate", "wait_term"}
    /\ pc' = "reset_current"

\* C26: the status chosen once the yt-dlp process has been waited on is STOPPED
\* if cancel_event is set and stop_mode is SAVE, CANCELLED if cancel_event is set
\* and stop_mode is CANCEL, otherwise COMPLETED for return code 0 and FAILED for
\* any other; the cancel cases win over the return code.  (_finalize_job, which
\* runs in the same step, turns FAILED into PARTIAL when it moved a file.)
C26_StatusAfterWait ==
    [][RunDecided =>
          \E moved \in BOOLEAN :
              status' = _finalize_job(
                  (IF cancel_event /\ stop_mode = "SAVE" THEN "STOPPED"
                   ELSE IF cancel_event /\ stop_mode = "CANCEL" THEN "CANCELLED"
                   ELSE IF process = "exited0" THEN "COMPLETED"
                   ELSE "FAILED"), moved)]_vars

\* C26 witness: the status was decided with cancel_event set and stop_mode SAVE
C26_Witness ==
    /\ pc = "reset_current" /\ process = "none" /\ n_dequeued > n_recorded
    /\ cancel_event /\ stop_mode = "SAVE" /\ status = "STOPPED"

\* C27: a job whose yt-dlp process exits non-zero without cancellation (run
\* status FAILED) is recorded as PARTIAL exactly when at least one file was
\* moved to the folder and as FAILED exactly when none was; no job is recorded
\* FAILED with file names, none PARTIAL without.
C27_PartialIffFilesMoved ==
    fin.pc = "finalized" =>
        /\ (fin.run_status = "FAILED" =>
               /\ fin.status \in {"FAILED", "PARTIAL"}
               /\ (fin.status = "PARTIAL" <=> fin.final_filenames # {}))
        /\ ~(fin.status = "FAILED" /\ fin.final_filenames # {})
        /\ ~(fin.status = "PARTIAL" /\ fin.final_filenames = {})

\* C27 witness: a failed run whose files were moved has been finalized as PARTIAL
C27_Witness ==
    /\ fin.pc = "finalized" /\ fin.run_status = "FAILED"
    /\ fin.status = "PARTIAL" /\ fin.final_filenames # {}

\* C28: if the yt-dlp process cannot be started, or preparing the job raises,
\* then (the worker thread being scheduled) the job is recorded in the history
\* with status ERROR and an error_summary that is not empty, the current
\* download is reset, and the worker is back at the top of its loop, ready for
\* the next queued job.
C28_StartFailureIsRecorded ==
    \A n \in 1..MaxPasses :
        (pc = "reset_current" /\ status = "ERROR" /\ n_dequeued = n)
        ~> (/\ pc = "idle" /\ n_recorded = n
            /\ Len(history) = n
            /\ history[n].status = "ERROR"
            /\ history[n].error_summary # "None"
            /\ history[n].job_data # NoJob
            /\ current_download = _get_default_current_download)

\* C28 witness: the first job could not be started and is recorded as ERROR,
\* the worker went on and completed the second
C28_Witness ==
    /\ pc = "idle" /\ Len(history) = 2
    /\ history[1].status = "ERROR" /\ history[1].error_summary # "None"
    /\ history[2].status = "COMPLETED"

\* C29: _finalize_job moves downloaded files from the scratch directory to the
\* destination folder only for a job that ends COMPLETED, PARTIAL or STOPPED:
\* for every other final status (CANCELLED, ERROR, FAILED) no media file of the
\* folder is written and the list of file names is empty.
C29_NoFilesMovedWhenCancelled ==
    (fin.pc = "finalized" /\ fin.status \notin {"COMPLETED", "PARTIAL", "STOPPED"})
    => /\ fin.final_filenames = {}
       /\ \A n \in DestNames \ {MainArchive} : fs_dest[n] = fin.dest_at_start[n]

\* the worker holds no job, or has not yet announced the one it holds, or has
\* reset the current download at the end of the pass
WorkerShowsNothing ==
    pc \in {"idle", "get", "clear_cancel", "set_stop_mode", "update_current",
            "add_history", "update_history", "dead"}

\* C30: whenever the worker is idle (at startup, and from the end of a job's
\* pass until the next job is dequeued) current_download has its default value;
\* it holds a job only while the worker works on that job, and nothing fills
\* it again after the reset of the finally block.
C30_CurrentDownloadDefaultWhenIdle ==
    /\ (WorkerShowsNothing => current_download = _get_default_current_download)
    /\ (current_download # _get_default_current_download =>
           /\ job # NoJob
           /\ current_download.job_data = job)

\* C30 witness: a job was announced, ran to the end and was recorded; the worker
\* is idle again
C30_Witness ==
    /\ pc = "idle" /\ n_recorded = 1 /\ Len(history) = 1
    /\ history[1].status = "COMPLETED"
    /\ current_download = _get_default_current_download
    /\ current_download_version >= 4

\* C31: when a trigger fires for a Scythe that has been deleted, or whose
\* schedule is now disabled or absent, nothing is enqueued, no history row is
\* written, the queue and history versions are unchanged, and the scheduler
\* thread keeps running.
C31_StaleTriggerIsSkipped ==
    [][\A scythe_id \in schedule_jobs :
          (/\ _reap_scythe(scythe_id)
           /\ \/ get_by_id(scythes, scythe_id) = <<>>
              \/ ~get_by_id(scythes, scythe_id)[1].enabled) =>
             /\ UNCHANGED <<jobs, queue, history, queue_state_version,
                            history_state_version, state_file>>
             /\ sched_pc' = "running"]_vars

\* the Scythes of the list with an enabled schedule of the given interval
EnabledWith(interval) ==
    {i \in 1..Len(reload.scythes) :
        /\ reload.scythes[i].schedule.present
        /\ reload.scythes[i].schedule.enabled
        /\ reload.scythes[i].schedule.interval = interval}

C33_LoadRestoresQueue ==
    [][(main_pc = "startup" /\ state_file.exists /\ _apply_state(state_file)) =>
          /\ main_pc' = "serving"
          /\ Len(queue') = Len(state_file.queue)
          /\ \A i \in 1..Len(queue') :
                /\ jobs'[queue'[i]].url = state_file.queue[i].url
                /\ jobs'[queue'[i]].resolved_folder = state_file.queue[i].resolved_folder
                /\ jobs'[queue'[i]].id < next_queue_id'
          /\ \A i, k \in 1..Len(queue') :
                i # k => jobs'[queue'[i]].id # jobs'[queue'[k]].id]_vars

\* C34: in every reachable state the log_id values of the history rows are
\* pairwise distinct, and within one process a log_id handed out by
\* add_to_history is greater than every log_id handed out or loaded before, also
\* after delete_from_history or clear_history and for the ABANDONED row of a load.
C34_LogIdsDistinctAndIncreasing ==
    /\ [](\A i, k \in 1..Len(history) : i # k => history[i].log_id # history[k].log_id)
    /\ [](\A i \in 1..Len(history) : history[i].log_id < next_log_id)
    /\ [][lifetime' = lifetime =>
            /\ next_log_id' >= next_log_id
            /\ \A k \in 1..Len(history') :
                  (\A i \in 1..Len(history) : history[i].log_id # history'[k].log_id)
                  => (history'[k].log_id >= next_log_id /\ next_log_id' > history'[k].log_id)]_vars

\* C34 witness: after a restart that wrote an ABANDONED row the worker has
\* recorded a further job, whose log_id is the larger one
C34_Witness ==
    /\ lifetime = 1 /\ main_pc = "serving" /\ pc = "idle"
    /\ Len(history) >= 2
    /\ history[Len(history) - 1].status = "ABANDONED"
    /\ history[Len(history)].status \in TerminalStatuses \ {"ABANDONED"}
    /\ history[Len(history)].log_id > history[Len(history) - 1].log_id

\* C35: the worker's recording of a finished job is atomic for the other callers
\* of the StateManager: whenever the lock is free (a get_history_summary or
\* get_history_item_by_log_id call can read) every history row has a status, and
\* no clear_history or delete_from_history call between the creation of the row
\* and the writing of its fields leaves the finished job without a row.
C35_RecordingIsAtomic ==
    /\ [](LockFree => \A i \in 1..Len(history) : history[i].status # "")
    /\ [][(pc = "update_history" /\ pc' = "idle") =>
             Cardinality(RowsOf(history', job)) = 1]_vars

\* C36: once pause_queue has returned and until resume_queue is called the
\* worker takes no job from the queue and starts none, wherever in its loop the
\* pause finds it (also inside queue.get(timeout=1)); a job that is running when
\* pause_queue is called goes on.
C36_PausedWorkerTakesNoJob ==
    [][/\ (n_dequeued' # n_dequeued /\ lifetime' = lifetime) => queue_paused_event
       /\ pause_queue => (pc' = pc /\ process' = process /\ job' = job)]_vars

\* C37: once shutdown is signalled (stop_event set and None put on the queue)
\* the worker loop exits, whether the queue is empty, holds jobs or is paused,
\* after at most the job in work; after the worker has seen the signal it
\* starts no real job.
C37_WorkerExitsAfterShutdown ==
    /\ (shutdown.main = "join") ~> (shutdown.worker = "exited")
    /\ [](~shutdown.started_after_seen)
    /\ [](shutdown.seen => shutdown.worker = "exited")

\* C38: when two concurrent ScytheManager calls have returned, every Scythe an
\* add call added is stored unless the other call deleted it, and two add
\* calls returned different ids.
C38_ConcurrentAddsKeepBoth ==
    (manager.pc = "run" /\ \A t \in ManagerThreads : manager.th[t].pc = "done") =>
        /\ \A t \in ManagerThreads :
              manager.th[t].op = "add" =>
                 \/ \E i \in 1..Len(manager.file) :
                       manager.file[i] = StoredScythe(manager.th[t].result, ThreadData(t))
                 \/ \E u \in ManagerThreads \ {t} :
                       /\ manager.th[u].op \in {"delete", "update"}
                       /\ manager.th[u].scythe_id = manager.th[t].result
                       /\ manager.th[u].result = 1
        /\ (\A t \in ManagerThreads : manager.th[t].op = "add") =>
              manager.th[1].result # manager.th[2].result

\* C39: once all concurrent runs of _load_and_schedule_jobs have returned,
\* each enabled daily Scythe has exactly one registered trigger (and a Scythe
\* that is not enabled has none), so a due time enqueues it exactly once.
C39_OneTriggerPerScythe ==
    (reloads.pc = "run" /\ ReloadsDone) =>
        \A k \in DOMAIN reloads.enqueued :
            /\ Cardinality({j \in 1..Len(reloads.jobs) : reloads.jobs[j] = k})
                  = (IF reloads.file[k + 1] THEN 1 ELSE 0)
            /\ reloads.ticked = "after" =>
                  reloads.enqueued[k] = (IF reloads.file[k + 1] THEN 1 ELSE 0)

\* C40: every instant at which the trigger of a weekly Scythe fires is, on a
\* clock in user_timezone, the configured HH:MM on a weekday the Scythe lists,
\* also when the conversion of HH:MM to the server's clock crosses midnight.
C40_WeeklyFiresOnListedWeekday ==
    (trigger # NoTrigger /\ trigger.fired # <<>>) =>
        /\ trigger.fired[1].time = trigger.at_time_user
        /\ trigger.fired[1].weekday = trigger.day_index

====
